---- MODULE Spec2Model ----
(***************************************************************************)
(* SpawnCanvas: the Entity Store (canvas/store.js, second definition of    *)
(* Store, lines 587-1674), the History Manager (canvas/core/history.js)    *)
(* and the interaction handlers of CanvasApp (canvas/app.js).              *)
(*                                                                         *)
(* JavaScript runs one task at a time: a handler runs from its entry to    *)
(* its first await on a storage call that was really issued, and the       *)
(* continuation of an await runs in the task that settles the call. Each   *)
(* action below is one such task. null/undefined is the record NULL; a     *)
(* timer handle is a positive integer and 0 is "no handle" (falsy).        *)
(***************************************************************************)
EXTENDS Integers, Sequences, FiniteSets, TLC

\* ------------------------------------------------------------------ bounds
MaxEdits == 2        \* mutating Store calls in one run
MaxSwitches == 2     \* calls of switchWorkspace in one run, that of init included
MaxFaults == 1       \* storage calls that are rejected in one run
MaxActs == 2         \* user actions in one run, any action of the app
MaxHistoryActs == 4  \* user actions in one run of editing, undoing and redoing
MaxGestureActs == 2  \* user actions in one run of creating, dragging and resizing
MaxPushes == 44      \* user actions in one run that fills the history
MaxGroupActs == 2    \* drags in one run of dragging containers and notes
MaxImportActs == 2   \* exports and imports in one run
MaxWorkspaceActs == 3 \* workspaces created, imported and deleted in one run
MaxEntries == 2      \* workspaces in one file of all workspaces
MaxSelectActs == 3   \* presses and clicks in one run of selecting
MaxModeActs == 3     \* presses on the background in one run of panning and selecting
MaxSubscriptions == 3 \* handlers subscribed at a time
MaxTextActs == 3     \* text edits and undos in one run of the text fields
MaxNestingActs == 4  \* key presses in one run of indenting and outdenting
MaxCorner == 2       \* the left and the top of a rectangle: 0..MaxCorner
MaxExtent == 2       \* its width and its height: 0..MaxExtent
MaxCoordinate == 45  \* a coordinate to snap: -MaxCoordinate..MaxCoordinate

\* ------------------------------------------------------- program constants
DEFAULT_WORKSPACE_ID == "default"
DEFAULT_WORKSPACE_NAME == "Default Workspace"

NULL == [null |-> TRUE]

WorkspaceIds == {"default", "alpha", "ghost"}
\* generateWorkspaceId (store.js:673-681): the slug of the name and six
\* random characters; the ids it can return in one run.
NewWorkspaceIds ==
  {"imported_1", "imported_2", "imported_3", "imported_4", "imported_5",
   "imported_6", "imported_7", "imported_8", "imported_9"}
StorageIds == WorkspaceIds \cup NewWorkspaceIds
SwitchProcs == {"p1", "p2"}
Titles == {"t"}

VARIABLES
  currentWorkspace,   \* store.js:613  the in-memory workspace object or NULL
  saveTimeout,        \* store.js:614  handle of the debounce timer, 0 if none
  isInitialized,      \* store.js:615
  timers,             \* the timers setTimeout has armed and that have not run:
                      \* [h: the handle, for: the workspace that was current]
  timerSeq,           \* the handle setTimeout returned last
  storage,            \* chrome.storage.local: [ws, list, current, hist], and
                      \* whether the bytes in use exceed STORAGE_LIMIT_BYTES
                      \* (store.js:609): [over]
  inflight,           \* storage calls issued and not yet settled, oldest first
  chromeAvailable,    \* isStorageAvailable(): the extension context is valid
  faults,             \* storage calls rejected so far
  sw,                 \* the executions of switchWorkspace / init in progress
  now,                \* Date.now()
  emitted,            \* what the task that ran last emitted and returned, in order
  calls,              \* how many Store calls the run has made: [edits, switches],
                      \* and how many actions the user may still make: [acts]
  lastMem,            \* per workspace id, the in-memory state after its last mutation
  observing,          \* whether the run keeps what each task emitted and
                      \* what was pushed to the history
  listeners,          \* store.js:618  the subscriptions [event, callback], in
                      \* the order in which they were added
  invoked,            \* the callbacks the task that ran last invoked, in order
  exported,           \* the file the last export downloaded (app.js:687-706)
                      \* and the workspace it was made of: [json, of]; NULL
                      \* before the first export
  job,                \* the execution of importWorkspace, importAllWorkspaces
                      \* or CanvasApp.deleteWorkspace in progress
  storageLimitWarningShown, \* store.js:610
  alerts              \* how many times alert() was called by checkStorageUsage

storeVars == <<currentWorkspace, saveTimeout, isInitialized, timers, timerSeq,
               storage,
               inflight, chromeAvailable, faults, sw, now, emitted, calls,
               lastMem, observing, listeners, invoked, exported, job,
               storageLimitWarningShown, alerts>>

VARIABLES
  undoStack,          \* history.js:13  snapshots of the items, oldest first
  redoStack,          \* history.js:14
  currentWorkspaceId, \* history.js:15  "" while no history is loaded
  isRestoring,        \* history.js:16
  panOffset,          \* app.js:15      CanvasApp.panOffset
  areaRect,           \* the size of the canvas area on screen
  gesture,            \* the drag or resize in progress: what the closures of
                      \* startDrag / startResize hold, NULL if there is none
  historyDebounceTimer, \* app.js:767  whether _historyDebounceTimer is armed
  autoResizeTimers,   \* the checklists whose setTimeout(autoResizeChecklist, 0)
                      \* has not run yet (app.js:1861)
  selectedItems,      \* app.js:21     the ids of the selected items
  isSelecting,        \* app.js:22     a rubber band is being drawn
  selectionStart,     \* app.js:23     where it was started, on the surface
  selectionBox,       \* app.js:24     its rectangle (the style of the
                      \* element), NULL if there is none
  selectionBoxes,     \* the elements of class selection-box in the surface
  isPanning,          \* app.js:16
  panStart,           \* app.js:17
  isSpaceDown,        \* app.js:18
  committed,          \* what the last drag or resize that completed wrote to
                      \* the Store: the gesture, and each item as it left it
  act,                \* the app handler that ran last: its name, the items when
                      \* it was entered and the snapshots it pushed
  last,               \* the History Manager call made last, what it returned,
                      \* the stacks before it and the two calls before it
  pushLog,            \* the items every push was called with, in call order
  law,                \* the last push(P), the items when undo was called after
                      \* it, and what the undo and the redo after it returned
  input,              \* the arguments a function of the app is applied to
                      \* by itself (not by a handler), NULL if there are none
  output              \* what it returned, application after application

histVars == <<undoStack, redoStack, currentWorkspaceId, isRestoring>>

appVars == <<panOffset, areaRect, gesture, historyDebounceTimer,
             autoResizeTimers, selectedItems, isSelecting, selectionStart,
             selectionBox, selectionBoxes, isPanning, panStart, isSpaceDown,
             committed, act, last, pushLog, law>>

calcVars == <<input, output>>

vars == <<storeVars, histVars, appVars, calcVars>>

\* --------------------------------------------------------------- utilities
Merge(a, b) ==
  [k \in (DOMAIN a) \cup (DOMAIN b) |-> IF k \in DOMAIN b THEN b[k] ELSE a[k]]

SeqContains(s, x) == \E i \in 1..Len(s) : s[i] = x

IndexOfId(items, id) ==
  IF \E i \in 1..Len(items) : items[i].id = id
  THEN CHOOSE i \in 1..Len(items) :
         items[i].id = id /\ \A j \in 1..(i - 1) : items[j].id # id
  ELSE 0

RemoveAt(s, i) == SubSeq(s, 1, i - 1) \o SubSeq(s, i + 1, Len(s))

\* The world a handler works on: the variables above as one record, so that a
\* handler is a composition of the functions it calls.
World ==
  [cw |-> currentWorkspace, st |-> saveTimeout, init |-> isInitialized,
   timers |-> timers, nh |-> timerSeq, stor |-> storage, q |-> inflight,
   sw |-> sw, ev |-> <<>>, mem |-> lastMem, file |-> exported, job |-> job,
   subs |-> listeners, inv |-> <<>>,
   warned |-> storageLimitWarningShown, alerts |-> alerts,
   undo |-> undoStack, redo |-> redoStack, hid |-> currentWorkspaceId,
   restoring |-> isRestoring, g |-> gesture, hdt |-> historyDebounceTimer,
   art |-> autoResizeTimers, done |-> committed,
   pan |-> panOffset,
   sel |-> selectedItems, selecting |-> isSelecting, sstart |-> selectionStart,
   sbox |-> selectionBox, boxes |-> selectionBoxes,
   panning |-> isPanning, pstart |-> panStart, space |-> isSpaceDown,
   act |-> act, last |-> last, log |-> pushLog, law |-> law]

Commit(w) ==
  /\ currentWorkspace' = w.cw
  /\ saveTimeout' = w.st
  /\ isInitialized' = w.init
  /\ timers' = w.timers
  /\ timerSeq' = w.nh
  /\ storage' = w.stor
  /\ inflight' = w.q
  /\ sw' = w.sw
  /\ emitted' = IF observing THEN w.ev ELSE <<>>
  /\ observing' = observing
  /\ lastMem' = w.mem
  /\ listeners' = w.subs
  /\ invoked' = w.inv
  /\ exported' = w.file
  /\ job' = w.job
  /\ storageLimitWarningShown' = w.warned
  /\ alerts' = w.alerts
  /\ undoStack' = w.undo
  /\ redoStack' = w.redo
  /\ currentWorkspaceId' = w.hid
  /\ isRestoring' = w.restoring
  /\ gesture' = w.g
  /\ historyDebounceTimer' = w.hdt
  /\ autoResizeTimers' = w.art
  /\ committed' = w.done
  /\ selectedItems' = w.sel
  /\ isSelecting' = w.selecting
  /\ selectionStart' = w.sstart
  /\ selectionBox' = w.sbox
  /\ selectionBoxes' = w.boxes
  /\ isPanning' = w.panning
  /\ panStart' = w.pstart
  /\ isSpaceDown' = w.space
  /\ act' = w.act
  /\ last' = w.last
  /\ law' = w.law
  /\ pushLog' = w.log
  /\ panOffset' = w.pan
  /\ UNCHANGED <<areaRect, input, output>>

\* ------------------------------------------------------------- pub/sub
\* A callback is what it is called ("h") and whether it throws when called.
\* on (store.js:629-634): listeners.get(event) is a Set
on(w, event, callback) ==
  IF SeqContains(w.subs, [event |-> event, callback |-> callback]) THEN w
  ELSE [w EXCEPT !.subs = Append(@, [event |-> event, callback |-> callback])]

\* off (store.js:641-645)
off(w, event, callback) ==
  [w EXCEPT !.subs = SelectSeq(@, LAMBDA l :
                        l # [event |-> event, callback |-> callback])]

\* An emit whose loop ends with the first callback that throws.
emitUntilThrow(w, event, data) ==
  LET called == SelectSeq(w.subs, LAMBDA l : l.event = event)
      first == IF \E i \in 1..Len(called) : called[i].callback.throws
               THEN CHOOSE i \in 1..Len(called) :
                      /\ called[i].callback.throws
                      /\ \A j \in 1..(i - 1) : ~called[j].callback.throws
               ELSE Len(called)
  IN [w EXCEPT !.ev = Append(@, [e |-> event, d |-> data]),
               !.inv = @ \o SubSeq(called, 1, first)]

\* emit (store.js:652-662): every callback subscribed to the event is
\* called, in the order of the Set; what it throws is caught and logged.
\* What the handlers of the app do is part of the actions that model them.
emit(w, event, data) ==
  LET called == SelectSeq(w.subs, LAMBDA l : l.event = event)
  IN [w EXCEPT !.ev = Append(@, [e |-> event, d |-> data]),
               !.inv = @ \o called]

\* A value a handler returns to its caller, kept with the task's events.
return(w, fn, value) == [w EXCEPT !.ev = Append(@, [e |-> fn, d |-> value])]

\* ------------------------------------------------------------- storage port
WsKey(id) == [k |-> "workspace", id |-> id]
ListKey == [k |-> "workspaces_list", id |-> ""]
CurrentKey == [k |-> "current_workspace", id |-> ""]
HistoryKey(id) == [k |-> "history", id |-> id]

\* chrome.storage.local.get(key): the stored value, NULL if there is none.
StorageGet(stor, key) ==
  CASE key.k = "workspace" -> stor.ws[key.id]
    [] key.k = "history" -> stor.hist[key.id]
    [] key.k = "workspaces_list" -> stor.list
    [] OTHER -> stor.current

\* chrome.storage.local.set({[key]: val})
StorageSet(stor, key, val) ==
  CASE key.k = "workspace" -> [stor EXCEPT !.ws[key.id] = val]
    [] key.k = "history" -> [stor EXCEPT !.hist[key.id] = val]
    [] key.k = "workspaces_list" -> [stor EXCEPT !.list = val]
    [] OTHER -> [stor EXCEPT !.current = val]

\* A call handed to chrome.storage.local: it settles later, in issue order.
\* proc is the execution that awaits it ("none": nobody does), then is what
\* the awaiting code does when nobody but the call itself is waited for.
Issue(w, kind, key, val, proc, then) ==
  [w EXCEPT !.q = Append(@, [kind |-> kind, key |-> key, val |-> val,
                             proc |-> proc, then |-> then])]

\* isStorageAvailable (store.js:752-754)
isStorageAvailable == chromeAvailable

\* checkStorageUsage (store.js:759-773), up to its await. While the bytes in
\* use are within the limit the answer of getBytesInUse changes nothing, and
\* the call is left out.
checkStorageUsage(w) ==
  IF ~isStorageAvailable \/ w.warned THEN w
  ELSE IF ~w.stor.over THEN w
  ELSE Issue(w, "getBytesInUse", [k |-> "", id |-> ""], NULL, "usage", "")

\* checkStorageUsage, lines 764-772: getBytesInUse has settled
usageAnswered(w, ok) ==
  IF ok /\ w.stor.over
  THEN [w EXCEPT !.warned = TRUE, !.alerts = @ + 1]
  ELSE w

\* ------------------------------------------------------------- timers
clearTimeout(w, h) == [w EXCEPT !.timers = {t \in @ : t.h # h}]

\* setTimeout: a handle that was not returned before
setTimeout(w) ==
  [w EXCEPT !.nh = @ + 1,
            !.timers = @ \cup {[h |-> w.nh + 1,
                                for |-> IF w.cw = NULL THEN "" ELSE w.cw.id]}]

\* scheduleSave (store.js:1549-1556)
scheduleSave(w) ==
  LET w1 == IF w.st # 0 THEN clearTimeout(w, w.st) ELSE w
      w2 == setTimeout(w1)
  IN [w2 EXCEPT !.st = w2.nh]

\* What JSON.stringify and chrome.storage write of an array of objects: a
\* member whose value is undefined is left out. An object of this model
\* lists the members it holds with the value undefined under "undefined".
Written(items) ==
  [i \in 1..Len(items) |->
     [k \in (DOMAIN items[i]) \ {"undefined"} |-> items[i][k]]]

\* saveWorkspaceData (store.js:779-792), up to its await: with no storage API
\* it returns at once (FALSE: nothing was issued).
saveWorkspaceDataIssues == isStorageAvailable

saveWorkspaceData(w, workspace, proc, then) ==
  IF saveWorkspaceDataIssues
  THEN Issue(w, "set", WsKey(workspace.id),
             [workspace EXCEPT !.items = Written(@)], proc, then)
  ELSE w

\* saveNow (store.js:1562-1577), up to its await. SaveNowAwaits says whether
\* it suspended on a storage call; if not it has already returned.
saveNowClear(w) == IF w.st # 0 THEN [clearTimeout(w, w.st) EXCEPT !.st = 0] ELSE w

SaveNowAwaits(w) == w.cw # NULL /\ saveWorkspaceDataIssues

saveNow(w, proc) ==
  LET w1 == saveNowClear(w)
  IN IF w1.cw = NULL THEN w1
     ELSE IF saveWorkspaceDataIssues
          THEN saveWorkspaceData(w1, w1.cw, proc, "saved")
          ELSE emit(w1, "workspace:saved", w1.cw.id)

\* -------------------------------------------------------------- workspaces
\* createWorkspaceObject (store.js:689-699)
createWorkspaceObject(id, name) ==
  [id |-> id, name |-> name, viewportX |-> 0, viewportY |-> 0, items |-> <<>>,
   createdAt |-> now, updatedAt |-> now]

\* -------------------------------------------------------------- item CRUD
\* generateItemId (store.js:941-943): `item_${Date.now()}_${random}`. The
\* random suffix (one of 36^7) is taken to differ from the suffixes of the ids
\* in use.
generateItemId(items) ==
  LET used == {items[i].id.r : i \in 1..Len(items)}
  IN [t |-> now, r |-> CHOOSE n \in 0..Len(items) : n \notin used]

\* data.f || dflt
OrDefault(data, f, dflt) ==
  IF f \in DOMAIN data /\ data[f] # dflt THEN data[f] ELSE dflt

Some(v) == [some |-> TRUE, v |-> v]

NoLaw ==
  [phase |-> "none", P |-> <<>>, post |-> <<>>, undoRet |-> NULL,
   afterUndo |-> <<>>, redoRet |-> NULL, afterRedo |-> <<>>]

\* The Store has mutated the current workspace: its state is remembered, and
\* a redo made from now on is no longer one made right after the undo.
Remember(w) ==
  [w EXCEPT !.mem[w.cw.id] = w.cw,
            !.law = IF @.phase \in {"undone", "redone"} THEN NoLaw ELSE @]

\* createItem (store.js:951-987)
createItemObject(items, type, data) ==
  LET base == [id |-> generateItemId(items), type |-> type,
               title |-> "", position |-> [x |-> 2500, y |-> 2500],
               size |-> [width |-> 250, height |-> 180],
               createdAt |-> now, updatedAt |-> now]
      item == Merge(base, data)
  IN CASE type = "note" ->
            Merge(item, [content |-> OrDefault(data, "content", "")])
       [] type = "checklist" ->
            Merge(item, [items |-> OrDefault(data, "items", <<>>)])
       [] type = "container" ->
            Merge(item, [color |-> OrDefault(data, "color", "blue"),
                         children |-> OrDefault(data, "children", <<>>)])
       [] type = "image" ->
            Merge(item, [imageData |-> OrDefault(data, "imageData", "")])
       [] OTHER -> item

createItem(w, type, data) ==
  IF w.cw = NULL THEN return(w, "createItem", NULL)
  ELSE LET item == createItemObject(w.cw.items, type, data)
           w1 == [w EXCEPT !.cw.items = Append(@, item), !.cw.updatedAt = now]
           w2 == emit(w1, "item:created", item.id)
       IN return(Remember(scheduleSave(w2)), "createItem", item)

\* An updateItem that schedules the save before it looks for the item.
updateItemSavesFirst(w, id, changes) ==
  IF w.cw = NULL THEN return(w, "updateItem", NULL)
  ELSE LET index == IndexOfId(w.cw.items, id)
       IN IF index = 0 THEN return(scheduleSave(w), "updateItem", NULL)
          ELSE LET item == Merge(Merge(w.cw.items[index], changes),
                                 [updatedAt |-> now])
                   w1 == [w EXCEPT !.cw.items[index] = item,
                                   !.cw.updatedAt = now]
                   w2 == emit(w1, "item:updated", item.id)
               IN return(Remember(scheduleSave(w2)), "updateItem", item)

\* updateItem (store.js:995-1011)
updateItem(w, id, changes) ==
  IF w.cw = NULL THEN return(w, "updateItem", NULL)
  ELSE LET index == IndexOfId(w.cw.items, id)
       IN IF index = 0 THEN return(w, "updateItem", NULL)
          ELSE LET item == Merge(Merge(w.cw.items[index], changes),
                                 [updatedAt |-> now])
                   w1 == [w EXCEPT !.cw.items[index] = item,
                                   !.cw.updatedAt = now]
                   w2 == emit(w1, "item:updated", item.id)
               IN return(Remember(scheduleSave(w2)), "updateItem", item)

\* deleteItem (store.js:1018-1031)
deleteItem(w, id) ==
  IF w.cw = NULL THEN return(w, "deleteItem", [ok |-> FALSE])
  ELSE LET index == IndexOfId(w.cw.items, id)
       IN IF index = 0 THEN return(w, "deleteItem", [ok |-> FALSE])
          ELSE LET w1 == [w EXCEPT !.cw.items = RemoveAt(@, index),
                                   !.cw.updatedAt = now]
                   w2 == emit(w1, "item:deleted", id)
               IN return(Remember(scheduleSave(w2)), "deleteItem", [ok |-> TRUE])

\* getItem (store.js:1038-1041)
getItem(w, id) ==
  IF w.cw = NULL \/ IndexOfId(w.cw.items, id) = 0 THEN NULL
  ELSE w.cw.items[IndexOfId(w.cw.items, id)]

\* getAllItems (store.js:1047-1050)
getAllItems(w) == IF w.cw = NULL THEN <<>> ELSE w.cw.items

\* updateViewport (store.js:1061-1069)
updateViewport(w, x, y) ==
  IF w.cw = NULL THEN w
  ELSE Remember(scheduleSave([w EXCEPT !.cw.viewportX = x, !.cw.viewportY = y,
                                       !.cw.updatedAt = now]))

\* --------------------------------------------------------- History Manager
MAX_HISTORY == 42

\* deepClone (history.js:28-30): JSON.parse(JSON.stringify(obj)). The items
\* of this model are JSON values (finite numbers, strings, booleans, arrays
\* and plain objects without undefined members), which the round trip
\* rebuilds member by member; the stacks hold values, never references.
deepClone(items) ==
  [i \in 1..Len(items) |-> [k \in DOMAIN items[i] |-> items[i][k]]]

NoCall ==
  [op |-> "", ret |-> NULL, before |-> [u |-> <<>>, r |-> <<>>],
   prev |-> "", prevBefore |-> [u |-> <<>>, r |-> <<>>], prev2 |-> ""]

\* A call of the History Manager is made on world w: it is noted with the
\* stacks it finds and with what it returns.
Called(w, op, ret) ==
  [w EXCEPT !.last = [op |-> op, ret |-> ret,
                      before |-> [u |-> w.undo, r |-> w.redo],
                      prev |-> w.last.op, prevBefore |-> w.last.before,
                      prev2 |-> w.last.prev]]

\* saveHistory (history.js:73-90), up to its await; a rejection is caught.
saveHistory(w) ==
  IF w.hid = "" THEN w
  ELSE IF ~isStorageAvailable THEN w
       ELSE Issue(w, "set", HistoryKey(w.hid),
                  [undoStack |-> w.undo, redoStack |-> w.redo], "none", "")

\* loadHistory (history.js:42-68), up to its await
loadHistory(w, workspaceId) ==
  IF ~isStorageAvailable
  THEN [w EXCEPT !.undo = <<>>, !.redo = <<>>, !.hid = workspaceId]
  ELSE Issue(w, "get", HistoryKey(workspaceId), NULL, "loadHistory", "")

\* loadHistory, lines 52-66: the read has settled. When it was rejected the
\* stacks are emptied and currentWorkspaceId stays as it was.
loadHistoryAnswered(w, workspaceId, ok, data) ==
  IF ~ok THEN [w EXCEPT !.undo = <<>>, !.redo = <<>>]
  ELSE [w EXCEPT !.undo = IF data # NULL THEN data.undoStack ELSE <<>>,
                 !.redo = IF data # NULL THEN data.redoStack ELSE <<>>,
                 !.hid = workspaceId]

\* push that evicts the newest snapshot instead of the oldest.
pushEvictsNewest(w, items) ==
  IF w.restoring THEN w
  ELSE LET state == deepClone(items)
           pushed == Append(w.undo, state)
           w1 == [Called(w, "push", NULL) EXCEPT
                    !.undo = IF Len(pushed) > MAX_HISTORY
                             THEN SubSeq(pushed, 1, Len(pushed) - 1)
                             ELSE pushed,
                    !.redo = <<>>,
                    !.act.pushed = Append(@, state),
                    !.log = IF observing THEN Append(@, items) ELSE @,
                    !.law = [NoLaw EXCEPT !.phase = "pushed", !.P = items]]
       IN saveHistory(w1)

\* push that does not clear the redo stack.
pushKeepsRedo(w, items) ==
  IF w.restoring THEN w
  ELSE LET state == deepClone(items)
           pushed == Append(w.undo, state)
           w1 == [Called(w, "push", NULL) EXCEPT
                    !.undo = IF Len(pushed) > MAX_HISTORY THEN Tail(pushed)
                             ELSE pushed,
                    !.act.pushed = Append(@, state),
                    !.log = IF observing THEN Append(@, items) ELSE @,
                    !.law = [NoLaw EXCEPT !.phase = "pushed", !.P = items]]
       IN saveHistory(w1)

\* push (history.js:96-114)
push(w, items) ==
  IF w.restoring THEN w
  ELSE LET state == deepClone(items)
           pushed == Append(w.undo, state)
           w1 == [Called(w, "push", NULL) EXCEPT
                    !.undo = IF Len(pushed) > MAX_HISTORY THEN Tail(pushed)
                             ELSE pushed,
                    !.redo = <<>>,
                    !.act.pushed = Append(@, state),
                    !.log = IF observing THEN Append(@, items) ELSE @,
                    !.law = [NoLaw EXCEPT !.phase = "pushed", !.P = items]]
       IN saveHistory(w1)

\* undo (history.js:121-138): what it returns, and what it does
undoReturns(w) ==
  IF Len(w.undo) = 0 THEN NULL ELSE Some(w.undo[Len(w.undo)])

\* undo that keeps the state it returns, not the current one, for redo.
undoKeepsPrevious(w, currentItems) ==
  IF Len(w.undo) = 0
  THEN [Called(w, "undo", NULL) EXCEPT !.law = NoLaw]
  ELSE LET w1 == [Called(w, "undo", undoReturns(w)) EXCEPT
                    !.redo = Append(@, deepClone(undoReturns(w).v)),
                    !.undo = SubSeq(@, 1, Len(@) - 1),
                    !.law = IF @.phase = "pushed"
                            THEN [@ EXCEPT !.phase = "undone",
                                           !.post = currentItems,
                                           !.undoRet = undoReturns(w)]
                            ELSE NoLaw]
       IN saveHistory(w1)

undo(w, currentItems) ==
  IF Len(w.undo) = 0
  THEN [Called(w, "undo", NULL) EXCEPT !.law = NoLaw]
  ELSE LET w1 == [Called(w, "undo", undoReturns(w)) EXCEPT
                    !.redo = Append(@, deepClone(currentItems)),
                    !.undo = SubSeq(@, 1, Len(@) - 1),
                    !.law = IF @.phase = "pushed"
                            THEN [@ EXCEPT !.phase = "undone",
                                           !.post = currentItems,
                                           !.undoRet = undoReturns(w)]
                            ELSE NoLaw]
       IN saveHistory(w1)

\* redo (history.js:145-162)
redoReturns(w) ==
  IF Len(w.redo) = 0 THEN NULL ELSE Some(w.redo[Len(w.redo)])

\* A redo that leaves the snapshot it returns on redoStack.
redoKeeps(w, currentItems) ==
  IF Len(w.redo) = 0 THEN Called(w, "redo", NULL)
  ELSE saveHistory([Called(w, "redo", redoReturns(w)) EXCEPT
                      !.undo = Append(@, deepClone(currentItems))])

redo(w, currentItems) ==
  IF Len(w.redo) = 0
  THEN [Called(w, "redo", NULL) EXCEPT !.law = NoLaw]
  ELSE LET w1 == [Called(w, "redo", redoReturns(w)) EXCEPT
                    !.undo = Append(@, deepClone(currentItems)),
                    !.redo = SubSeq(@, 1, Len(@) - 1),
                    !.law = IF @.phase = "undone"
                            THEN [@ EXCEPT !.phase = "redone",
                                           !.redoRet = redoReturns(w)]
                            ELSE NoLaw]
       IN saveHistory(w1)

\* canUndo, canRedo (history.js:167-176)
canUndo(w) == Len(w.undo) > 0

canRedo(w) == Len(w.redo) > 0

\* setRestoring (history.js:181-183)
setRestoring(w, value) == [w EXCEPT !.restoring = value]

\* ---------------------------------------------------------------- CanvasApp
canvasSize == 5000
gridSize == 20

\* A snap that moves every coordinate to the grid line after it.
SnapToNext(v) == (v \div gridSize + 1) * gridSize

\* Math.round(v / gridSize) * gridSize for an integer v (Math.round rounds a
\* half up, towards +Infinity).
Snap(v) == ((v + gridSize \div 2) \div gridSize) * gridSize

MathMax(a, b) == IF a >= b THEN a ELSE b
MathMin(a, b) == IF a <= b THEN a ELSE b

\* A handler of the app is entered: the items it finds are noted.
Enter(w, name) ==
  [w EXCEPT !.act = [name |-> name, pre |-> getAllItems(w), pushed |-> <<>>,
                     shiftKey |-> FALSE]]

\* A mouse event is handled, with Shift held or not.
EnterMouse(w, name, shiftKey) ==
  [Enter(w, name) EXCEPT !.act.shiftKey = shiftKey]

\* deselectAll (app.js:1532-1540)
deselectAll(w) == [w EXCEPT !.sel = {}]

\* selectItem (app.js:1572-1593)
selectItem(w, id, addToSelection) ==
  LET w1 == IF ~addToSelection THEN deselectAll(w) ELSE w
  IN IF addToSelection /\ id \in w1.sel THEN [w1 EXCEPT !.sel = @ \ {id}]
     ELSE [w1 EXCEPT !.sel = @ \cup {id}]

\* clearCanvas (app.js:820-824)
clearCanvas(w) == [w EXCEPT !.sel = {}]

\* `if (note) { this.renderItem(note); this.selectItem(note.id); }`
\* (app.js:1636-1639 and the like): w is the world after Store.createItem,
\* n the number of items before it.
selectCreated(w, n) ==
  IF Len(getAllItems(w)) > n
  THEN selectItem(w, w.cw.items[Len(w.cw.items)].id, FALSE)
  ELSE w

\* pushHistory (app.js:758-761)
pushHistory(w) == push(w, getAllItems(w))

\* restoreState (app.js:803-818); clearCanvas and renderAllItems rebuild the
\* DOM from the Store's items.
\* renderNote, renderChecklist, renderContainer and renderImage start by
\* reading item.position.x and item.size.width (app.js:1723-1726, 1752-1755,
\* 1798-1801, 2103-2106): a TypeError for an item that has no position or
\* no size. An item of another type is not rendered (app.js:828-838).
Renders(item) ==
  \/ "type" \notin DOMAIN item
  \/ item.type \notin {"note", "checklist", "container", "image"}
  \/ "position" \in DOMAIN item /\ "size" \in DOMAIN item

\* renderAllItems (app.js:826-839) throws.
renderAllItemsThrows(w) ==
  \E i \in 1..Len(getAllItems(w)) : ~Renders(getAllItems(w)[i])

\* restoreState (app.js:803-818). It has no try: when renderAllItems throws,
\* setRestoring(false) is not reached.
restoreState(w, items) ==
  LET w1 == setRestoring(w, TRUE)
      w2 == IF w1.cw # NULL
            THEN saveNow([w1 EXCEPT !.cw.items = items], "none")
            ELSE w1
      w3 == clearCanvas(w2)
  IN IF renderAllItemsThrows(w3) THEN w3 ELSE setRestoring(w3, FALSE)

\* CanvasApp.undo (app.js:779-786)
appUndo(w) ==
  LET currentItems == getAllItems(w)
      previousState == undoReturns(w)
      w1 == undo(w, currentItems)
  IN IF previousState # NULL
     THEN LET w2 == restoreState(w1, previousState.v)
          IN IF w2.law.phase = "undone"
             THEN [w2 EXCEPT !.law.afterUndo = getAllItems(w2)]
             ELSE w2
     ELSE w1

\* CanvasApp.redo (app.js:791-798)
appRedo(w) ==
  LET currentItems == getAllItems(w)
      nextState == redoReturns(w)
      w1 == redo(w, currentItems)
  IN IF nextState # NULL
     THEN LET w2 == restoreState(w1, nextState.v)
          IN IF w2.law.phase = "redone"
             THEN [w2 EXCEPT !.law.afterRedo = getAllItems(w2)]
             ELSE w2
     ELSE w1

\* getNewItemPosition (app.js:1611-1621) with the view panned to pan and a
\* canvas area of the size of rect, whose sides are even.
NewItemPosition(pan, rect) ==
  [x |-> Snap(0 - pan.x + rect.width \div 2 - 100),
   y |-> Snap(0 - pan.y + rect.height \div 2 - 75)]

getNewItemPosition == NewItemPosition(panOffset, areaRect)

\* addNote (app.js:1623-1646)
addNote(w) ==
  selectCreated(
    createItem(pushHistory(w), "note",
               [title |-> "", content |-> "", position |-> getNewItemPosition,
                size |-> [width |-> 250, height |-> 180]]),
    Len(getAllItems(w)))

\* addChecklist (app.js:1769-1792)
addChecklist(w) ==
  selectCreated(
    createItem(pushHistory(w), "checklist",
               [title |-> "", items |-> <<>>, position |-> getNewItemPosition,
                size |-> [width |-> 280, height |-> 200]]),
    Len(getAllItems(w)))

colors == <<"red", "orange", "yellow", "green", "teal", "blue", "purple", "pink">>

\* addContainer (app.js:2070-2097); randomColor is colors[Math.floor(...)]
addContainer(w, randomColor) ==
  selectCreated(
    createItem(pushHistory(w), "container",
               [title |-> "", color |-> randomColor,
                position |-> getNewItemPosition,
                size |-> [width |-> 350, height |-> 250], children |-> <<>>]),
    Len(getAllItems(w)))

\* CanvasApp.deleteItem (app.js:2317-2327)
appDeleteItem(w, id) ==
  [deleteItem(pushHistory(w), id) EXCEPT !.sel = @ \ {id}]

\* deleteSelectedItems (app.js:1542-1549): the Set is gone through in the
\* order its ids were added, order here.
RECURSIVE deleteEach(_, _, _)
deleteEach(w, order, i) ==
  IF i > Len(order) THEN w
  ELSE deleteEach(appDeleteItem(w, order[i]), order, i + 1)

deleteSelectedItems(w, order) ==
  IF w.sel = {} THEN w
  ELSE [deleteEach(w, order, 1) EXCEPT !.sel = {}]

\* colors.indexOf(c), counted from 0; -1 if c is not a colour of the list
ColorIndex(c) ==
  IF \E i \in 1..Len(colors) : colors[i] = c
  THEN (CHOOSE i \in 1..Len(colors) : colors[i] = c) - 1
  ELSE 0 - 1

\* cycleContainerColor (app.js:2128-2148)
cycleContainerColor(w, containerId) ==
  LET w1 == pushHistory(w)
      container == getItem(w1, containerId)
  IN IF container = NULL THEN w1
     ELSE LET color == IF "color" \in DOMAIN container THEN container.color
                       ELSE ""
              nextIndex == (ColorIndex(color) + 1) % Len(colors)
          IN updateItem(w1, containerId, [color |-> colors[nextIndex + 1]])

\* pushHistoryDebounced (app.js:766-774)
pushHistoryDebounced(w) == [w EXCEPT !.hdt = TRUE]

\* The input handler of a title field (app.js:537-539)
inputTitle(w, itemId, value) ==
  pushHistoryDebounced(updateItem(w, itemId, [title |-> value]))

\* input in the content of a note (app.js:540-542)
inputContent(w, itemId, value) ==
  pushHistoryDebounced(updateItem(w, itemId, [content |-> value]))

\* The timer of pushHistoryDebounced runs (app.js:770-773)
historyDebounceRuns(w) == [pushHistory(w) EXCEPT !.hdt = FALSE]

\* autoResizeChecklist (app.js:1464-1493). The checklist's element exists
\* and has the height of the item; scrollHeight is what the browser measures.
autoResizeChecklist(w, id, scrollHeight) ==
  LET item == getItem(w, id)
  IN IF item = NULL THEN w
     ELSE LET currentHeight == item.size.height
              headerHeight == 37
              minHeight == 100
              requiredHeight == scrollHeight + headerHeight + 5
          IN IF requiredHeight > currentHeight
             THEN LET newHeight == MathMax(requiredHeight, minHeight)
                      index == IndexOfId(w.cw.items, id)
                      w1 == [w EXCEPT !.cw.items[index].size.height = newHeight]
                  IN updateItem(w1, id, [size |-> w1.cw.items[index].size])
             ELSE w

\* `ci_${Date.now()}_${random}` (app.js:1846): as generateItemId
generateEntryId(entries) ==
  LET used == {entries[i].id.r : i \in 1..Len(entries)}
  IN [t |-> now, r |-> CHOOSE n \in 0..Len(entries) : n \notin used]

\* checklist.items.find / findIndex: the index of the entry, 0 if none
IndexOfEntry(checklist, itemId) == IndexOfId(checklist.items, itemId)

\* addChecklistItem (app.js:1838-1870)
addChecklistItem(w, checklistId) ==
  LET w1 == pushHistory(w)
      checklist == getItem(w1, checklistId)
  IN IF checklist = NULL THEN w1
     ELSE LET index == IndexOfId(w1.cw.items, checklistId)
              newItem == [id |-> generateEntryId(checklist.items), text |-> "",
                          completed |-> FALSE, nested |-> 0]
              w2 == [w1 EXCEPT !.cw.items[index].items = Append(@, newItem)]
              w3 == updateItem(w2, checklistId,
                               [items |-> w2.cw.items[index].items])
          IN [w3 EXCEPT !.art = @ \cup {checklistId}]

\* toggleChecklistItem that saves the state after it has toggled.
togglePushesAfter(w, checklistId, itemId, completed) ==
  LET checklist == getItem(w, checklistId)
  IN IF checklist = NULL \/ IndexOfEntry(checklist, itemId) = 0
     THEN pushHistory(w)
     ELSE LET index == IndexOfId(w.cw.items, checklistId)
              e == IndexOfEntry(checklist, itemId)
              w2 == [w EXCEPT !.cw.items[index].items[e].completed = completed]
          IN updateItem(pushHistory(w2), checklistId,
                        [items |-> w2.cw.items[index].items])

\* toggleChecklistItem (app.js:1991-2008)
toggleChecklistItem(w, checklistId, itemId, completed) ==
  LET w1 == pushHistory(w)
      checklist == getItem(w1, checklistId)
  IN IF checklist = NULL \/ IndexOfEntry(checklist, itemId) = 0 THEN w1
     ELSE LET index == IndexOfId(w1.cw.items, checklistId)
              e == IndexOfEntry(checklist, itemId)
              w2 == [w1 EXCEPT !.cw.items[index].items[e].completed = completed]
          IN updateItem(w2, checklistId, [items |-> w2.cw.items[index].items])

\* updateChecklistItemText that writes the text to the first entry.
updateFirstEntryText(w, checklistId, itemId, text) ==
  LET checklist == getItem(w, checklistId)
  IN IF checklist = NULL \/ IndexOfEntry(checklist, itemId) = 0 THEN w
     ELSE LET index == IndexOfId(w.cw.items, checklistId)
              w1 == [w EXCEPT !.cw.items[index].items[1].text = text]
          IN pushHistoryDebounced(
               updateItem(w1, checklistId, [items |-> w1.cw.items[index].items]))

\* updateChecklistItemText (app.js:2010-2020)
updateChecklistItemText(w, checklistId, itemId, text) ==
  LET checklist == getItem(w, checklistId)
  IN IF checklist = NULL \/ IndexOfEntry(checklist, itemId) = 0 THEN w
     ELSE LET index == IndexOfId(w.cw.items, checklistId)
              e == IndexOfEntry(checklist, itemId)
              w1 == [w EXCEPT !.cw.items[index].items[e].text = text]
          IN pushHistoryDebounced(
               updateItem(w1, checklistId, [items |-> w1.cw.items[index].items]))

\* deleteChecklistItem (app.js:2022-2041)
deleteChecklistItem(w, checklistId, itemId, scrollHeight) ==
  LET w1 == pushHistory(w)
      checklist == getItem(w1, checklistId)
  IN IF checklist = NULL \/ IndexOfEntry(checklist, itemId) = 0 THEN w1
     ELSE LET index == IndexOfId(w1.cw.items, checklistId)
              e == IndexOfEntry(checklist, itemId)
              w2 == [w1 EXCEPT !.cw.items[index].items = RemoveAt(@, e)]
              w3 == updateItem(w2, checklistId,
                               [items |-> w2.cw.items[index].items])
          IN autoResizeChecklist(w3, checklistId, scrollHeight)

\* toggleChecklistItemNesting that indents whatever the depth.
toggleNestingUncapped(w, checklistId, itemId, indent) ==
  LET w1 == pushHistory(w)
      checklist == getItem(w1, checklistId)
  IN IF checklist = NULL \/ IndexOfEntry(checklist, itemId) = 0 THEN w1
     ELSE LET index == IndexOfId(w1.cw.items, checklistId)
              e == IndexOfEntry(checklist, itemId)
              item == checklist.items[e]
              w2 == [w1 EXCEPT !.cw.items[index].items[e] =
                       IF "nested" \notin DOMAIN item THEN item
                       ELSE IF indent THEN [item EXCEPT !.nested = @ + 1]
                       ELSE IF item.nested > 0
                       THEN [item EXCEPT !.nested = @ - 1]
                       ELSE item]
          IN updateItem(w2, checklistId, [items |-> w2.cw.items[index].items])

\* toggleChecklistItemNesting (app.js:2044-2068). An entry that has no
\* nested member (item.nested is undefined) passes neither comparison.
toggleChecklistItemNesting(w, checklistId, itemId, indent) ==
  LET w1 == pushHistory(w)
      checklist == getItem(w1, checklistId)
  IN IF checklist = NULL \/ IndexOfEntry(checklist, itemId) = 0 THEN w1
     ELSE LET index == IndexOfId(w1.cw.items, checklistId)
              e == IndexOfEntry(checklist, itemId)
              item == checklist.items[e]
              w2 == [w1 EXCEPT !.cw.items[index].items[e] =
                       IF "nested" \notin DOMAIN item THEN item
                       ELSE IF indent /\ item.nested < 2
                       THEN [item EXCEPT !.nested = @ + 1]
                       ELSE IF ~indent /\ item.nested > 0
                       THEN [item EXCEPT !.nested = @ - 1]
                       ELSE item]
          IN updateItem(w2, checklistId, [items |-> w2.cw.items[index].items])

\* Math.round(n / d) for positive integers n and d
RoundDiv(n, d) == (2 * n + d) \div (2 * d)

\* img.onload of createImageFromPaste (app.js:1685-1715): the pasted image is
\* imgWidth by imgHeight. ratio is maxSize / the longer side.
createImageFromPaste(w, imgWidth, imgHeight) ==
  LET maxSize == 800
      longer == MathMax(imgWidth, imgHeight)
      scaled == imgWidth > maxSize \/ imgHeight > maxSize
      width == IF scaled THEN RoundDiv(imgWidth * maxSize, longer) ELSE imgWidth
      height == IF scaled THEN RoundDiv(imgHeight * maxSize, longer) ELSE imgHeight
  IN selectCreated(
       createItem(pushHistory(w), "image",
                  [imageData |-> "data:image/png;base64",
                   position |-> getNewItemPosition,
                   size |-> [width |-> MathMax(100, width),
                             height |-> MathMax(100, height)]]),
       Len(getAllItems(w)))

\* getItemsInsideContainer that tests the top-left corner, not the centre.
getItemsWithCornerInside(w, containerId) ==
  LET container == getItem(w, containerId)
  IN IF container = NULL THEN <<>>
     ELSE IF container.type # "container" THEN <<>>
     ELSE LET left == container.position.x
              right == container.position.x + container.size.width
              top == container.position.y
              bottom == container.position.y + container.size.height
              Inside(item) ==
                /\ item.id # containerId
                /\ item.type # "container"
                /\ 2 * item.position.x >= 2 * left
                /\ 2 * item.position.x <= 2 * right
                /\ 2 * item.position.y >= 2 * top
                /\ 2 * item.position.y <= 2 * bottom
          IN SelectSeq(getAllItems(w), Inside)

\* getItemsInsideContainer (app.js:2152-2171): the items that are not
\* containers and whose centre is inside the container. The centre is
\* position + size / 2: both sides of each comparison are doubled.
getItemsInsideContainer(w, containerId) ==
  LET container == getItem(w, containerId)
  IN IF container = NULL THEN <<>>
     ELSE IF container.type # "container" THEN <<>>
     ELSE LET left == container.position.x
              right == container.position.x + container.size.width
              top == container.position.y
              bottom == container.position.y + container.size.height
              Inside(item) ==
                /\ item.id # containerId
                /\ item.type # "container"
                /\ 2 * item.position.x + item.size.width >= 2 * left
                /\ 2 * item.position.x + item.size.width <= 2 * right
                /\ 2 * item.position.y + item.size.height >= 2 * top
                /\ 2 * item.position.y + item.size.height <= 2 * bottom
          IN SelectSeq(getAllItems(w), Inside)

NoGesture ==
  [kind |-> "", id |-> NULL, handle |-> "", requested |-> NULL, items |-> <<>>,
   before |-> <<>>, after |-> <<>>]

\* An intersection test that does not count rectangles that only touch.
checkIntersectionStrict(boxA, boxB) ==
  ~(\/ boxA.left >= boxB.left + boxB.width
    \/ boxA.left + boxA.width <= boxB.left
    \/ boxA.top >= boxB.top + boxB.height
    \/ boxA.top + boxA.height <= boxB.top)

\* An intersection test that counts a touch at the right and at the bottom
\* of boxB only.
checkIntersectionHalfOpen(boxA, boxB) ==
  ~(\/ boxA.left > boxB.left + boxB.width
    \/ boxA.left + boxA.width <= boxB.left
    \/ boxA.top > boxB.top + boxB.height
    \/ boxA.top + boxA.height <= boxB.top)

\* checkIntersection (app.js:1364-1372)
checkIntersection(boxA, boxB) ==
  ~(\/ boxA.left > boxB.left + boxB.width
    \/ boxA.left + boxA.width < boxB.left
    \/ boxA.top > boxB.top + boxB.height
    \/ boxA.top + boxA.height < boxB.top)

\* handleCanvasMouseDown on the background (app.js:1263-1283) while Space is
\* not held, startSelection (app.js:1285-1305); x and y are on the surface.
startSelection(w, x, y) ==
  [w EXCEPT !.selecting = TRUE, !.sstart = [x |-> x, y |-> y],
            !.sbox = [left |-> x, top |-> y, width |-> 0, height |-> 0],
            !.boxes = @ + 1]

\* handleCanvasMouseMove (app.js:1307-1317), updateSelection (app.js:1319-1339)
updateSelection(w, currentX, currentY) ==
  IF ~w.selecting \/ w.sbox = NULL THEN w
  ELSE LET dx == currentX - w.sstart.x
           dy == currentY - w.sstart.y
       IN [w EXCEPT !.sbox = [left |-> MathMin(w.sstart.x, currentX),
                              top |-> MathMin(w.sstart.y, currentY),
                              width |-> IF dx < 0 THEN 0 - dx ELSE dx,
                              height |-> IF dy < 0 THEN 0 - dy ELSE dy]]

\* handleCanvasMouseDown on the background (app.js:1263-1283), Space held
\* or not. The corner of the canvas area is the origin of the client
\* coordinates, so that the surface, which is translated by panOffset, has
\* its corner at panOffset.
handleCanvasMouseDown(w, clientX, clientY) ==
  IF w.space
  THEN [w EXCEPT !.panning = TRUE,
                 !.pstart = [x |-> clientX - w.pan.x, y |-> clientY - w.pan.y]]
  ELSE startSelection(w, clientX - w.pan.x, clientY - w.pan.y)

\* handleCanvasMouseMove (app.js:1307-1317)
handleCanvasMouseMove(w, clientX, clientY) ==
  IF w.panning
  THEN [w EXCEPT !.pan = [x |-> clientX - w.pstart.x,
                          y |-> clientY - w.pstart.y]]
  ELSE IF w.selecting
  THEN updateSelection(w, clientX - w.pan.x, clientY - w.pan.y)
  ELSE w

\* The handlers of keydown and keyup of Space, the focus not in a field
\* (app.js:314-333)
spaceKeyDown(w) == [w EXCEPT !.space = TRUE]

spaceKeyUp(w) == [w EXCEPT !.space = FALSE]

\* handleCanvasMouseUp (app.js:1374-1384), endSelection (app.js:1386-1458)
endSelection(w, shiftKey) ==
  IF ~w.selecting THEN w
  ELSE IF w.sbox = NULL THEN [w EXCEPT !.selecting = FALSE]
  ELSE LET boxRect == w.sbox
           w1 == [w EXCEPT !.sbox = NULL, !.selecting = FALSE,
                           !.boxes = @ - 1]
           items == getAllItems(w1)
           selectedIds ==
             {items[i].id : i \in {j \in 1..Len(items) :
                checkIntersection(boxRect,
                  [left |-> items[j].position.x, top |-> items[j].position.y,
                   width |-> items[j].size.width,
                   height |-> items[j].size.height])}}
       IN IF boxRect.width < 5 /\ boxRect.height < 5
          THEN IF ~shiftKey THEN deselectAll(w1) ELSE w1
          ELSE IF shiftKey THEN [w1 EXCEPT !.sel = @ \cup selectedIds]
               ELSE [deselectAll(w1) EXCEPT !.sel = selectedIds]

\* startDrag (app.js:2173-2197, 2252-2253): up to the registration of the
\* listeners. The closures keep item, startPos and groupedItems; the pending
\* positions are kept on the elements.
startDrag(w, itemId) ==
  LET item == getItem(w, itemId)
  IN IF item = NULL THEN w
     ELSE LET w1 == pushHistory(w)
              insideItems == IF item.type = "container"
                             THEN getItemsInsideContainer(w1, itemId) ELSE <<>>
              groupedItems ==
                [i \in 1..Len(insideItems) |->
                   [id |-> insideItems[i].id,
                    offsetX |-> insideItems[i].position.x - item.position.x,
                    offsetY |-> insideItems[i].position.y - item.position.y,
                    size |-> insideItems[i].size,
                    pendingPosition |-> NULL]]
          IN [w1 EXCEPT !.g = [kind |-> "drag", itemId |-> itemId, item |-> item,
                               startPos |-> item.position,
                               groupedItems |-> groupedItems,
                               pendingPosition |-> NULL,
                               requested |-> NULL,
                               startItems |-> getAllItems(w1)]]

\* The mousedown listener of the surface (app.js:459-485), for a button
\* pressed on the body of an item.
mousedown(w, itemId, shiftKey) ==
  startDrag(IF itemId \notin w.sel THEN selectItem(w, itemId, shiftKey) ELSE w,
            itemId)


\* onMouseMove of startDrag (app.js:2199-2229)
dragMouseMove(w, deltaX, deltaY) ==
  LET g == w.g
      newX == Snap(g.startPos.x + deltaX)
      newY == Snap(g.startPos.y + deltaY)
      position ==
        [x |-> MathMax(0, MathMin(newX, canvasSize - g.item.size.width)),
         y |-> MathMax(0, MathMin(newY, canvasSize - g.item.size.height))]
      Grouped(grouped) ==
        [grouped EXCEPT !.pendingPosition = Some(
           [x |-> MathMax(0, MathMin(position.x + grouped.offsetX,
                                     canvasSize - grouped.size.width)),
            y |-> MathMax(0, MathMin(position.y + grouped.offsetY,
                                     canvasSize - grouped.size.height))])]
  IN [w EXCEPT !.g.pendingPosition = Some(position),
               !.g.requested = Some([x |-> g.startPos.x + deltaX,
                                     y |-> g.startPos.y + deltaY]),
               !.g.groupedItems = [i \in 1..Len(g.groupedItems) |->
                                     Grouped(g.groupedItems[i])]]

\* The Store's items with the given ids, as records of a completed gesture.
Geometry(w, ids) ==
  LET Among(item) == \E i \in 1..Len(ids) : ids[i] = item.id
      found == SelectSeq(getAllItems(w), Among)
  IN [i \in 1..Len(found) |->
        [id |-> found[i].id, type |-> found[i].type,
         position |-> found[i].position, size |-> found[i].size]]

\* The updateItem calls of onMouseUp for the grouped items, first to last.
RECURSIVE saveGrouped(_, _, _)
saveGrouped(w, groupedItems, i) ==
  IF i > Len(groupedItems) THEN w
  ELSE LET grouped == groupedItems[i]
           w1 == IF grouped.pendingPosition # NULL
                 THEN updateItem(w, grouped.id,
                                 [position |-> grouped.pendingPosition.v])
                 ELSE w
       IN saveGrouped(w1, groupedItems, i + 1)

\* A release that saves the item under the pointer and leaves the items
\* dragged with it where the Store has them.
dragMouseUpAlone(w) ==
  [(IF w.g.pendingPosition # NULL
    THEN updateItem(w, w.g.itemId, [position |-> w.g.pendingPosition.v])
    ELSE w) EXCEPT !.g = NULL]

\* onMouseUp of startDrag (app.js:2231-2250)
dragMouseUp(w) ==
  LET g == w.g
      w1 == IF g.pendingPosition # NULL
            THEN updateItem(w, g.itemId, [position |-> g.pendingPosition.v])
            ELSE w
      w2 == saveGrouped(w1, g.groupedItems, 1)
      ids == (IF g.pendingPosition # NULL THEN <<g.itemId>> ELSE <<>>) \o
             [i \in 1..Len(g.groupedItems) |-> g.groupedItems[i].id]
  IN [w2 EXCEPT !.g = NULL,
                !.done = IF g.pendingPosition # NULL
                         THEN [kind |-> "drag", id |-> g.itemId, handle |-> "",
                               requested |-> g.requested,
                               items |-> Geometry(w2, ids),
                               before |-> g.startItems,
                               after |-> getAllItems(w2)]
                         ELSE @]

\* The minimum size of startResize (app.js:2270-2278)
minWidth(type) ==
  IF type = "container" THEN 300 ELSE IF type = "image" THEN 50 ELSE 200

minHeight(type) ==
  IF type = "container" THEN 200 ELSE IF type = "image" THEN 50 ELSE 100

\* startResize (app.js:2256-2278, 2313-2314): up to the registration of the
\* listeners. handle is the class of the handle: "se", "e" or "s".
startResize(w, itemId, handle) ==
  LET item == getItem(w, itemId)
  IN IF item = NULL THEN w
     ELSE [pushHistory(w) EXCEPT
             !.g = [kind |-> "resize", itemId |-> itemId, item |-> item,
                    handle |-> handle, startSize |-> item.size,
                    isRight |-> handle \in {"e", "se"},
                    isBottom |-> handle \in {"s", "se"},
                    requested |-> NULL, pendingSize |-> NULL,
                    startItems |-> getAllItems(w)]]

\* onMouseMove of startResize without the Math.max of the minimum size.
resizeWithoutMinimum(w, deltaX, deltaY) ==
  LET g == w.g
      size == [width |-> IF g.isRight THEN Snap(g.startSize.width + deltaX)
                         ELSE g.item.size.width,
               height |-> IF g.isBottom THEN Snap(g.startSize.height + deltaY)
                          ELSE g.item.size.height]
  IN [w EXCEPT !.g.pendingSize = Some(size),
               !.g.requested = Some([width |-> g.startSize.width + deltaX,
                                     height |-> g.startSize.height + deltaY])]

\* onMouseMove of startResize (app.js:2280-2300)
resizeMouseMove(w, deltaX, deltaY) ==
  LET g == w.g
      newWidth == MathMax(minWidth(g.item.type), g.startSize.width + deltaX)
      newHeight == MathMax(minHeight(g.item.type), g.startSize.height + deltaY)
      size == [width |-> IF g.isRight THEN Snap(newWidth)
                         ELSE g.item.size.width,
               height |-> IF g.isBottom THEN Snap(newHeight)
                          ELSE g.item.size.height]
  IN [w EXCEPT !.g.pendingSize = Some(size),
               !.g.requested = Some([width |-> g.startSize.width + deltaX,
                                     height |-> g.startSize.height + deltaY])]

\* onMouseUp of startResize (app.js:2302-2311)
resizeMouseUp(w) ==
  LET g == w.g
      w1 == IF g.pendingSize # NULL
            THEN updateItem(w, g.itemId, [size |-> g.pendingSize.v])
            ELSE w
  IN [w1 EXCEPT !.g = NULL,
                !.done = IF g.pendingSize # NULL
                         THEN [kind |-> "resize", id |-> g.itemId,
                               handle |-> g.handle,
                               requested |-> g.requested,
                               items |-> Geometry(w1, <<g.itemId>>),
                               before |-> g.startItems,
                               after |-> getAllItems(w1)]
                         ELSE @]

\* ------------------------------------------- switchWorkspace and Store.init
\* An execution of switchWorkspace (store.js:876-910), alone or called by init
\* (store.js:1583-1609). pc names the await it is suspended on ("w_..."), or
\* the statement it runs next. t0 and flush record, for the execution, the
\* debounce timer that was armed when it was called and what became of the
\* write of the outgoing workspace, created whether it created the workspace.
SwIdle ==
  [pc |-> "idle", id |-> "", ws |-> NULL, list |-> <<>>, caller |-> "",
   t0 |-> 0, flush |-> "none", created |-> FALSE]

Suspended(pc) ==
  pc \in {"idle", "w_initid", "w_flush", "w_load", "w_mksave", "w_mklist",
          "w_mklistset", "w_setcur"}

\* The execution ends: resolved with a value, or rejected by an error that
\* nothing caught ("throw"). init continues after its await of switchWorkspace.
SwReturn(w, p, value) ==
  LET w1 == return(w, "switchWorkspace", [v |-> value])
  IN IF w.sw[p].caller = "init" /\ value # "throw"
     THEN LET w2 == emit([w1 EXCEPT !.init = TRUE], "store:initialized",
                         IF w1.cw = NULL THEN "" ELSE w1.cw.id)
          IN [w2 EXCEPT !.sw[p] = SwIdle]
     ELSE [w1 EXCEPT !.sw[p] = SwIdle]

\* switchWorkspace that calls saveNow() and does not await it.
SwFlushNotAwaited(w, p) ==
  IF w.cw # NULL
  THEN [saveNow([w EXCEPT !.sw[p].t0 = w.st], "none") EXCEPT
          !.sw[p].pc = "load",
          !.sw[p].flush = IF SaveNowAwaits(w) THEN "pending" ELSE "unavailable"]
  ELSE [w EXCEPT !.sw[p].pc = "load"]

\* switchWorkspace, lines 877-880: flush the outgoing workspace.
SwFlush(w, p) ==
  IF w.cw # NULL
  THEN LET w1 == saveNow([w EXCEPT !.sw[p].t0 = w.st], p)
       IN IF SaveNowAwaits(w)
          THEN [w1 EXCEPT !.sw[p].pc = "w_flush", !.sw[p].flush = "pending"]
          ELSE [w1 EXCEPT !.sw[p].pc = "load", !.sw[p].flush = "unavailable"]
  ELSE [w EXCEPT !.sw[p].pc = "load"]

\* loadWorkspaceData (store.js:738-747) up to its await; with no storage API
\* the call throws, which is caught: null.
SwLoad(w, p) ==
  IF isStorageAvailable
  THEN [Issue(w, "get", WsKey(w.sw[p].id), NULL, p, "") EXCEPT !.sw[p].pc = "w_load"]
  ELSE [w EXCEPT !.sw[p].ws = NULL, !.sw[p].pc = "loaded"]

\* A switchWorkspace that returns false for every workspace it does not find.
SwLoadedNeverCreates(w, p) ==
  IF w.sw[p].ws # NULL THEN [w EXCEPT !.sw[p].pc = "assign"]
  ELSE SwReturn(w, p, "false")

\* switchWorkspace, lines 885-901
SwLoaded(w, p) ==
  IF w.sw[p].ws # NULL THEN [w EXCEPT !.sw[p].pc = "assign"]
  ELSE IF w.sw[p].id = DEFAULT_WORKSPACE_ID
       THEN LET workspace == createWorkspaceObject(DEFAULT_WORKSPACE_ID,
                                                   DEFAULT_WORKSPACE_NAME)
                w1 == [w EXCEPT !.sw[p].ws = workspace,
                                !.sw[p].created = TRUE]
            IN IF saveWorkspaceDataIssues
               THEN [saveWorkspaceData(w1, workspace, p, "") EXCEPT
                       !.sw[p].pc = "w_mksave"]
               ELSE [w1 EXCEPT !.sw[p].pc = "mklist"]
       ELSE SwReturn(w, p, "false")

\* getWorkspaceList (store.js:705-713) up to its await
SwMkList(w, p) ==
  IF isStorageAvailable
  THEN [Issue(w, "get", ListKey, NULL, p, "") EXCEPT !.sw[p].pc = "w_mklist"]
  ELSE [w EXCEPT !.sw[p].list = <<DEFAULT_WORKSPACE_ID>>, !.sw[p].pc = "gotlist"]

\* switchWorkspace, lines 893-896
SwGotList(w, p) ==
  IF ~SeqContains(w.sw[p].list, DEFAULT_WORKSPACE_ID)
  THEN IF isStorageAvailable
       THEN [Issue(w, "set", ListKey,
                   [v |-> <<DEFAULT_WORKSPACE_ID>> \o w.sw[p].list], p, "")
               EXCEPT !.sw[p].pc = "w_mklistset"]
       ELSE SwReturn(w, p, "throw")
  ELSE [w EXCEPT !.sw[p].pc = "assign"]

\* switchWorkspace, lines 903-906
SwAssign(w, p) ==
  LET w1 == [w EXCEPT !.cw = w.sw[p].ws]
  IN IF isStorageAvailable
     THEN [Issue(w1, "set", CurrentKey, w.sw[p].id, p, "") EXCEPT
             !.sw[p].pc = "w_setcur"]
     ELSE SwReturn(w1, p, "throw")

\* resetView (app.js:1507-1521)
resetView(w) ==
  LET x == 0 - (canvasSize \div 2 - areaRect.width \div 2)
      y == 0 - (canvasSize \div 2 - areaRect.height \div 2)
  IN updateViewport([w EXCEPT !.pan = [x |-> x, y |-> y]], x, y)

\* The handler CanvasApp subscribes to workspace:switched (app.js:74-90),
\* after its await
workspaceSwitchedResumes(w) ==
  IF renderAllItemsThrows(w) THEN clearCanvas(w)
  ELSE resetView(clearCanvas(w))

\* and up to its await
onWorkspaceSwitched(w) ==
  IF w.cw = NULL THEN workspaceSwitchedResumes(w)
  ELSE IF isStorageAvailable THEN loadHistory(w, w.cw.id)
  ELSE workspaceSwitchedResumes(loadHistory(w, w.cw.id))

\* subscribeToStoreEvents (app.js:73-91) has been called.
AppSubscription ==
  [event |-> "workspace:switched", callback |-> [h |-> "app", throws |-> FALSE]]

\* A switchWorkspace whose event the app handles with the history it has.
SwSwitchedKeepsHistory(w, p) ==
  SwReturn(emit(w, "workspace:switched", w.cw.id), p, "true")

\* switchWorkspace, lines 908-909
SwSwitched(w, p) ==
  LET w1 == emit(w, "workspace:switched", w.cw.id)
  IN SwReturn(IF SeqContains(w1.subs, AppSubscription)
              THEN onWorkspaceSwitched(w1) ELSE w1, p, "true")

SwStep(w, p) ==
  CASE w.sw[p].pc = "flush" -> SwFlush(w, p)
    [] w.sw[p].pc = "load" -> SwLoad(w, p)
    [] w.sw[p].pc = "loaded" -> SwLoaded(w, p)
    [] w.sw[p].pc = "mklist" -> SwMkList(w, p)
    [] w.sw[p].pc = "gotlist" -> SwGotList(w, p)
    [] w.sw[p].pc = "assign" -> SwAssign(w, p)
    [] w.sw[p].pc = "switched" -> SwSwitched(w, p)
    [] OTHER -> w

\* Run the execution to its next await (or to its end).
RECURSIVE SwRun(_, _)
SwRun(w, p) == IF Suspended(w.sw[p].pc) THEN w ELSE SwRun(SwStep(w, p), p)

\* The awaited call of execution p has settled: ok with value val, or not.
SwResume(w, p, ok, val) ==
  LET pc == w.sw[p].pc
  IN CASE pc = "w_initid" ->
            \* getCurrentWorkspaceId (store.js:924-931), then init line 1592
            [w EXCEPT !.sw[p].id = IF ok /\ val # "" THEN val
                                   ELSE DEFAULT_WORKSPACE_ID,
                      !.sw[p].pc = "flush"]
       [] pc = "w_flush" ->
            \* saveWorkspaceData caught a rejection; saveNow lines 1572-1573
            [emit(w, "workspace:saved", w.cw.id) EXCEPT
               !.sw[p].pc = "load",
               !.sw[p].flush = IF ok THEN "ack" ELSE "rejected"]
       [] pc = "w_load" ->
            [w EXCEPT !.sw[p].ws = IF ok THEN val ELSE NULL,
                      !.sw[p].pc = "loaded"]
       [] pc = "w_mksave" -> [w EXCEPT !.sw[p].pc = "mklist"]
       [] pc = "w_mklist" ->
            [w EXCEPT !.sw[p].list = IF ok /\ val # NULL THEN val.v
                                     ELSE <<DEFAULT_WORKSPACE_ID>>,
                      !.sw[p].pc = "gotlist"]
       [] pc = "w_mklistset" ->
            IF ok THEN [w EXCEPT !.sw[p].pc = "assign"]
            ELSE SwReturn(w, p, "throw")
       [] pc = "w_setcur" ->
            IF ok THEN [w EXCEPT !.sw[p].pc = "switched"]
            ELSE SwReturn(w, p, "throw")
       [] OTHER -> w

\* switchWorkspace(id), called by the app
switchWorkspace(w, p, id) ==
  SwRun([w EXCEPT !.sw[p] = [SwIdle EXCEPT !.pc = "flush", !.id = id,
                                           !.caller = "app"]], p)

\* Store.init (store.js:1583-1592), up to its first await
init(w, p) ==
  IF w.init THEN return(w, "init", [v |-> "current"])
  ELSE IF isStorageAvailable
       THEN [Issue(w, "get", CurrentKey, NULL, p, "") EXCEPT
               !.sw[p] = [SwIdle EXCEPT !.pc = "w_initid", !.caller = "init"]]
       ELSE SwRun([w EXCEPT !.sw[p] = [SwIdle EXCEPT !.pc = "flush",
                                         !.id = DEFAULT_WORKSPACE_ID,
                                         !.caller = "init"]], p)

\* ---------------------------------------------------- export and import
\* An execution of importWorkspace (store.js:1126-1179) or importAllWorkspaces
\* (store.js:1223-1282): the entries of the file, the one being processed,
\* the workspace built from it, the list read for it and the workspaces
\* imported so far. pre is the Store when the call was made, result what the
\* call returned; both are kept after the execution has ended (pc "idle").
\* For CanvasApp.deleteWorkspace (app.js:666-687): the id of the workspace,
\* the number of workspaces getWorkspaces found and the user's answer.
JobIdle ==
  [pc |-> "idle", kind |-> "", entries |-> <<>>, i |-> 0, ws |-> NULL,
   list |-> <<>>, imported |-> <<>>, result |-> NULL,
   pre |-> [stor |-> NULL, cw |-> NULL], id |-> "", n |-> 0, confirmed |-> FALSE,
   name |-> ""]

\* An array member of a JSON document, and a member that is not an array: a
\* string ("string", truthy) or null ("null", falsy).
JArray(v) == [t |-> "array", v |-> v]

\* JSON.stringify(exportData, null, 2) (store.js:1118)
JSONstringify(exportData) ==
  [text |-> "json",
   data |-> [exportData EXCEPT !.workspace.items = JArray(Written(@))]]

\* exportWorkspace() (store.js:1092-1119), as the app calls it (app.js:691):
\* of the current workspace.
exportWorkspace(w) ==
  IF w.cw = NULL THEN NULL
  ELSE JSONstringify(
         [version |-> 1, exportedAt |-> now,
          workspace |-> [name |-> w.cw.name, viewportX |-> w.cw.viewportX,
                         viewportY |-> w.cw.viewportY, items |-> w.cw.items,
                         createdAt |-> w.cw.createdAt,
                         updatedAt |-> w.cw.updatedAt]])

\* JSON.parse (store.js:1128, 1225): NULL stands for the SyntaxError it throws
JSONparse(jsonString) ==
  IF jsonString.text = "json" THEN Some(jsonString.data) ELSE NULL

\* The ids in use, which the random part of a new id is taken to avoid.
generateWorkspaceId(w) ==
  CHOOSE id \in NewWorkspaceIds :
    /\ w.stor.ws[id] = NULL
    /\ w.stor.list = NULL \/ ~SeqContains(w.stor.list.v, id)
    /\ \A k \in 1..Len(w.job.imported) : w.job.imported[k].id # id

\* `wsData.items || []` (store.js:1144, 1245)
ItemsOrEmpty(wsData) ==
  IF "items" \in DOMAIN wsData /\ wsData.items.t # "null"
  THEN wsData.items.v ELSE <<>>

\* Whether workspace.items.map is a function (store.js:1150, 1251)
HasMap(wsData) == "items" \notin DOMAIN wsData \/ wsData.items.t # "string"

\* item.items.map(ci => ({...ci, id: `ci_...`})) (store.js:1154-1157)
RECURSIVE regenerateEntryIds(_, _)
regenerateEntryIds(entries, acc) ==
  IF Len(acc) = Len(entries) THEN acc
  ELSE regenerateEntryIds(entries,
         Append(acc, Merge(entries[Len(acc) + 1],
                           [id |-> generateEntryId(entries \o acc)])))

\* A map that returns the items newest first.
RECURSIVE regenerateIdsNewestFirst(_, _)
regenerateIdsNewestFirst(items, acc) ==
  IF Len(acc) = Len(items) THEN acc
  ELSE LET item == items[Len(acc) + 1]
           id == generateItemId(items \o acc)
       IN regenerateIdsNewestFirst(items,
            <<IF "items" \in DOMAIN item
              THEN Merge(item, [id |-> id,
                                items |-> regenerateEntryIds(item.items, <<>>)])
              ELSE Merge(item, [id |-> id, undefined |-> {"items"}])>> \o acc)

\* workspace.items.map(item => ({...item, id: generateItemId(), items: ...}))
\* (store.js:1150-1158): an item without items gets the member items with
\* the value undefined.
RECURSIVE regenerateIds(_, _)
regenerateIds(items, acc) ==
  IF Len(acc) = Len(items) THEN acc
  ELSE LET item == items[Len(acc) + 1]
           id == generateItemId(items \o acc)
       IN regenerateIds(items,
            Append(acc,
              IF "items" \in DOMAIN item
              THEN Merge(item, [id |-> id,
                                items |-> regenerateEntryIds(item.items, <<>>)])
              ELSE Merge(item, [id |-> id, undefined |-> {"items"}])))

\* store.js:1136-1158 and 1237-1259: the workspace built from an entry
importedWorkspace(w, wsData) ==
  [id |-> generateWorkspaceId(w), name |-> wsData.name \o " (Imported)",
   viewportX |-> OrDefault(wsData, "viewportX", 0),
   viewportY |-> OrDefault(wsData, "viewportY", 0),
   items |-> regenerateIds(ItemsOrEmpty(wsData), <<>>),
   createdAt |-> now, updatedAt |-> now]

\* A catch that tells the subscribers of the failure.
JobCatchEmits(w) ==
  LET result == IF w.job.kind = "import" THEN NULL ELSE [v |-> <<>>]
  IN [return(emit(w, "workspace:import-failed", result), w.job.kind, result)
        EXCEPT !.job.pc = "idle", !.job.result = result]

\* The catch of importWorkspace (store.js:1174-1178) and of
\* importAllWorkspaces (store.js:1277-1281): an alert, and null or [].
JobCatch(w) ==
  LET result == IF w.job.kind \in {"import", "create"} THEN NULL
                ELSE [v |-> <<>>]
  IN [return(w, w.job.kind, result) EXCEPT !.job.pc = "idle",
                                            !.job.result = result]

\* The loop body up to the await of saveWorkspaceData (store.js:1131-1161,
\* 1234-1261), or the end of the loop.
JobEntry(w) ==
  IF w.job.i > Len(w.job.entries) THEN [w EXCEPT !.job.pc = "finish"]
  ELSE LET wsData == w.job.entries[w.job.i]
       IN IF wsData = NULL \/ wsData.name = ""
          THEN IF w.job.kind = "import" THEN JobCatch(w)
               ELSE [w EXCEPT !.job.i = @ + 1]
          ELSE IF ~HasMap(wsData) THEN JobCatch(w)
          ELSE LET workspace == importedWorkspace(w, wsData)
                   w1 == [w EXCEPT !.job.ws = workspace]
               IN IF saveWorkspaceDataIssues
                  THEN [saveWorkspaceData(w1, workspace, "job", "") EXCEPT
                          !.job.pc = "w_save"]
                  ELSE [w1 EXCEPT !.job.pc = "list"]

\* getWorkspaceList (store.js:705-713) up to its await
JobList(w) ==
  IF isStorageAvailable
  THEN [Issue(w, "get", ListKey, NULL, "job", "") EXCEPT !.job.pc = "w_list"]
  ELSE [w EXCEPT !.job.list = <<DEFAULT_WORKSPACE_ID>>, !.job.pc = "gotlist"]

\* store.js:1165-1168 and 1265-1268
JobGotList(w) ==
  IF ~SeqContains(w.job.list, w.job.ws.id)
  THEN IF isStorageAvailable
       THEN [Issue(w, "set", ListKey, [v |-> Append(w.job.list, w.job.ws.id)],
                   "job", "")
               EXCEPT !.job.pc = "w_listset"]
       ELSE JobCatch(w)
  ELSE [w EXCEPT !.job.pc = "added"]

\* store.js:1170-1173 and 1270; store.js:813-814 for createWorkspace
JobAdded(w) ==
  IF w.job.kind = "create"
  THEN [return(emit(w, "workspace:created", w.job.ws), "create", w.job.ws)
          EXCEPT !.job.pc = "idle", !.job.result = w.job.ws]
  ELSE IF w.job.kind = "import"
  THEN [return(emit(w, "workspace:imported", w.job.ws), "import", w.job.ws)
          EXCEPT !.job.pc = "idle", !.job.result = w.job.ws,
                 !.job.imported = <<w.job.ws>>]
  ELSE [w EXCEPT !.job.imported = Append(@, w.job.ws), !.job.i = @ + 1,
                 !.job.pc = "entry"]

\* store.js:1273-1276
JobFinish(w) ==
  LET result == [v |-> w.job.imported]
  IN [return(emit(w, "workspaces:imported", result), "importAll", result)
        EXCEPT !.job.pc = "idle", !.job.result = result]

\* CanvasApp.deleteWorkspace ends: with what Store.deleteWorkspace did, or
\* before it was called.
DelReturn(w, result) ==
  [return(w, "deleteWorkspace", [del |-> result]) EXCEPT
     !.job.pc = "idle", !.job.result = [del |-> result]]

\* getWorkspaces (store.js:719-731): the loop over the ids of the list
DelLoad(w) ==
  IF w.job.i > Len(w.job.list) THEN [w EXCEPT !.job.pc = "dconfirm"]
  ELSE IF isStorageAvailable
       THEN [Issue(w, "get", WsKey(w.job.list[w.job.i]), NULL, "job", "")
               EXCEPT !.job.pc = "w_dload"]
       ELSE [w EXCEPT !.job.i = @ + 1]

\* app.js:671-679, then deleteWorkspaceHistory (history.js:197-206) up to its
\* await
DelConfirm(w) ==
  IF w.job.n <= 1 THEN DelReturn(w, "last")
  ELSE IF ~w.job.confirmed THEN DelReturn(w, "cancelled")
  ELSE IF isStorageAvailable
       THEN [Issue(w, "remove", HistoryKey(w.job.id), NULL, "job", "")
               EXCEPT !.job.pc = "w_dhist"]
       ELSE [w EXCEPT !.job.pc = "dstore"]

\* Store.deleteWorkspace (store.js:845-846): getWorkspaceList up to its await
DelStore(w) ==
  IF isStorageAvailable
  THEN [Issue(w, "get", ListKey, NULL, "job", "") EXCEPT !.job.pc = "w_dlist2"]
  ELSE [w EXCEPT !.job.list = <<DEFAULT_WORKSPACE_ID>>, !.job.pc = "dgot"]

\* Store.deleteWorkspace without the check of the last workspace
DelGotListAny(w) ==
  IF ~SeqContains(w.job.list, w.job.id) THEN DelReturn(w, "refused")
  ELSE LET list == SelectSeq(w.job.list, LAMBDA x : x # w.job.id)
       IN IF isStorageAvailable
          THEN [Issue(w, "set", ListKey, [v |-> list], "job", "") EXCEPT
                  !.job.list = list, !.job.pc = "w_dlistset"]
          ELSE DelReturn(w, "throw")

\* Store.deleteWorkspace (store.js:848-859). A call that refuses returns
\* null, and the app does nothing more (app.js:681).
DelGotList(w) ==
  IF Len(w.job.list) <= 1 THEN DelReturn(w, "refused")
  ELSE IF ~SeqContains(w.job.list, w.job.id) THEN DelReturn(w, "refused")
  ELSE LET list == SelectSeq(w.job.list, LAMBDA x : x # w.job.id)
       IN IF isStorageAvailable
          THEN [Issue(w, "set", ListKey, [v |-> list], "job", "") EXCEPT
                  !.job.list = list, !.job.pc = "w_dlistset"]
          ELSE DelReturn(w, "throw")

\* Store.deleteWorkspace (store.js:861-863)
DelRemove(w) ==
  IF isStorageAvailable
  THEN [Issue(w, "remove", WsKey(w.job.id), NULL, "job", "") EXCEPT
          !.job.pc = "w_dremove"]
  ELSE DelReturn(w, "throw")

\* Store.deleteWorkspace (store.js:865-868), then app.js:681-683: the app
\* switches to the workspace that is first in the list.
DelSwitch(w) ==
  LET w1 == DelReturn(emit(w, "workspace:deleted", w.job.id), "deleted")
  IN IF w.job.kind = "delete" THEN switchWorkspace(w1, "p1", w.job.list[1])
     ELSE w1

\* exportAllWorkspaces (store.js:1193-1201): the members of a record that
\* are exported, as JSON.stringify writes them
ExportedEntry(workspace) ==
  [name |-> workspace.name, viewportX |-> workspace.viewportX,
   viewportY |-> workspace.viewportY,
   items |-> JArray(Written(workspace.items)),
   createdAt |-> workspace.createdAt, updatedAt |-> workspace.updatedAt]

\* exportAllWorkspaces (store.js:1190-1191): the loop over the ids of the
\* list, up to the await in loadWorkspaceData; then store.js:1205-1212
ExpLoad(w) ==
  IF w.job.i > Len(w.job.list)
  THEN LET result ==
             [text |-> "json",
              data |-> [version |-> 1, exportedAt |-> now, type |-> "all",
                        workspaces |-> w.job.imported]]
       IN [return(w, "exportAll", result) EXCEPT
             !.job.pc = "idle", !.job.result = result]
  ELSE IF isStorageAvailable
       THEN [Issue(w, "get", WsKey(w.job.list[w.job.i]), NULL, "job", "")
               EXCEPT !.job.pc = "w_eload"]
       ELSE [w EXCEPT !.job.i = @ + 1]

\* exportAllWorkspaces (store.js:1192-1202): loadWorkspaceData has returned
\* the record or null
ExpLoaded(w, workspace) ==
  [w EXCEPT !.job.imported = IF workspace # NULL
                             THEN Append(@, ExportedEntry(workspace)) ELSE @,
            !.job.i = @ + 1, !.job.pc = "eload"]

\* What renameWorkspace returns.
RenReturn(w, value) ==
  [return(w, "renameWorkspace", [v |-> value]) EXCEPT
     !.job.pc = "idle", !.job.result = [v |-> value]]

\* renameWorkspace (store.js:823-829): the record was read, or was not; the
\* name is set in the record read and that record is written.
RenLoaded(w) ==
  IF w.job.ws = NULL THEN RenReturn(w, "false")
  ELSE LET workspace == [w.job.ws EXCEPT !.name = w.job.name,
                                         !.updatedAt = now]
       IN IF isStorageAvailable
          THEN [Issue(w, "set", WsKey(w.job.id), workspace, "job", "") EXCEPT
                  !.job.ws = workspace, !.job.pc = "w_rsave"]
          ELSE [w EXCEPT !.job.ws = workspace, !.job.pc = "rsaved"]

\* renameWorkspace (store.js:831-837): saveWorkspaceData has returned, the
\* write done or its rejection caught.
RenSaved(w) ==
  LET w1 == IF w.cw # NULL /\ w.cw.id = w.job.id
            THEN [w EXCEPT !.cw.name = w.job.name] ELSE w
  IN RenReturn(emit(w1, "workspace:renamed",
                    [id |-> w.job.id, name |-> w.job.name]), "true")

JobStep(w) ==
  CASE w.job.pc = "entry" -> JobEntry(w)
    [] w.job.pc = "rloaded" -> RenLoaded(w)
    [] w.job.pc = "eload" -> ExpLoad(w)
    [] w.job.pc = "rsaved" -> RenSaved(w)
    [] w.job.pc = "list" -> JobList(w)
    [] w.job.pc = "gotlist" -> JobGotList(w)
    [] w.job.pc = "added" -> JobAdded(w)
    [] w.job.pc = "finish" -> JobFinish(w)
    [] w.job.pc = "dload" -> DelLoad(w)
    [] w.job.pc = "dconfirm" -> DelConfirm(w)
    [] w.job.pc = "dstore" -> DelStore(w)
    [] w.job.pc = "dgot" -> DelGotList(w)
    [] w.job.pc = "dremove" -> DelRemove(w)
    [] w.job.pc = "dswitch" -> DelSwitch(w)
    [] OTHER -> w

\* Run the execution to its next await (or to its end).
RECURSIVE JobRun(_)
JobRun(w) ==
  IF w.job.pc \in {"idle", "w_save", "w_list", "w_listset", "w_dlist",
                   "w_dload", "w_dhist", "w_dlist2", "w_dlistset", "w_dremove",
                   "w_rload", "w_rsave", "w_elist", "w_eload"}
  THEN w
  ELSE JobRun(JobStep(w))

\* The awaited call of the execution has settled: ok with value val, or not.
JobResume(w, ok, val) ==
  LET pc == w.job.pc
  IN CASE pc = "w_save" -> [w EXCEPT !.job.pc = "list"]
       [] pc = "w_list" ->
            [w EXCEPT !.job.list = IF ok /\ val # NULL THEN val.v
                                   ELSE <<DEFAULT_WORKSPACE_ID>>,
                      !.job.pc = "gotlist"]
       [] pc = "w_listset" ->
            IF ok THEN [w EXCEPT !.job.pc = "added"] ELSE JobCatch(w)
       [] pc = "w_dlist" ->
            [w EXCEPT !.job.list = IF ok /\ val # NULL THEN val.v
                                   ELSE <<DEFAULT_WORKSPACE_ID>>,
                      !.job.i = 1, !.job.pc = "dload"]
       [] pc = "w_dload" ->
            [w EXCEPT !.job.n = IF ok /\ val # NULL THEN @ + 1 ELSE @,
                      !.job.i = @ + 1, !.job.pc = "dload"]
       [] pc = "w_dhist" -> [w EXCEPT !.job.pc = "dstore"]
       [] pc = "w_rload" ->
            \* loadWorkspaceData (store.js:738-748)
            [w EXCEPT !.job.ws = IF ok THEN val ELSE NULL,
                      !.job.pc = "rloaded"]
       [] pc = "w_rsave" -> [w EXCEPT !.job.pc = "rsaved"]
       [] pc = "w_elist" ->
            [w EXCEPT !.job.list = IF ok /\ val # NULL THEN val.v
                                   ELSE <<DEFAULT_WORKSPACE_ID>>,
                      !.job.i = 1, !.job.pc = "eload"]
       [] pc = "w_eload" -> ExpLoaded(w, IF ok THEN val ELSE NULL)
       [] pc = "w_dlist2" ->
            [w EXCEPT !.job.list = IF ok /\ val # NULL THEN val.v
                                   ELSE <<DEFAULT_WORKSPACE_ID>>,
                      !.job.pc = "dgot"]
       [] pc = "w_dlistset" ->
            IF ok THEN [w EXCEPT !.job.pc = "dremove"] ELSE DelReturn(w, "throw")
       [] pc = "w_dremove" ->
            IF ok THEN [w EXCEPT !.job.pc = "dswitch"] ELSE DelReturn(w, "throw")
       [] OTHER -> w

\* renameWorkspace (store.js:823-824), up to the await in loadWorkspaceData
renameWorkspace(w, id, newName) ==
  LET called == [JobIdle EXCEPT !.kind = "rename", !.id = id, !.name = newName]
  IN IF isStorageAvailable
     THEN [Issue(w, "get", WsKey(id), NULL, "job", "") EXCEPT
             !.job = [called EXCEPT !.pc = "w_rload"]]
     ELSE JobRun([w EXCEPT !.job = [called EXCEPT !.pc = "rloaded"]])

\* exportAllWorkspaces (store.js:1185-1187), up to the await in
\* getWorkspaceList
exportAllWorkspaces(w) ==
  LET called == [JobIdle EXCEPT !.kind = "exportAll",
                                !.pre = [stor |-> w.stor, cw |-> w.cw]]
  IN IF isStorageAvailable
     THEN [Issue(w, "get", ListKey, NULL, "job", "") EXCEPT
             !.job = [called EXCEPT !.pc = "w_elist"]]
     ELSE JobRun([w EXCEPT !.job = [called EXCEPT
                     !.list = <<DEFAULT_WORKSPACE_ID>>, !.i = 1,
                     !.pc = "eload"]])

\* Store.createWorkspace (store.js:799-804), up to the await of
\* saveWorkspaceData
createWorkspace(w, name) ==
  LET called == [JobIdle EXCEPT !.kind = "create",
                                !.pre = [stor |-> w.stor, cw |-> w.cw]]
      workspace == createWorkspaceObject(generateWorkspaceId(w), name)
      w1 == [w EXCEPT !.job = [called EXCEPT !.ws = workspace]]
  IN IF saveWorkspaceDataIssues
     THEN [saveWorkspaceData(w1, workspace, "job", "") EXCEPT
             !.job.pc = "w_save"]
     ELSE JobRun([w1 EXCEPT !.job.pc = "list"])

\* Store.deleteWorkspace(id) (store.js:845-846), up to the await in
\* getWorkspaceList
deleteWorkspace(w, id) ==
  DelStore([w EXCEPT !.job = [JobIdle EXCEPT
                        !.kind = "storeDelete", !.id = id,
                        !.pre = [stor |-> w.stor, cw |-> w.cw]]])

JobCalled(w, kind, entries) ==
  [w EXCEPT !.job = [JobIdle EXCEPT !.pc = "entry", !.kind = kind,
                                    !.entries = entries, !.i = 1,
                                    !.pre = [stor |-> w.stor, cw |-> w.cw]]]

\* CanvasApp.deleteWorkspace (app.js:666-670), with the answer the user will
\* give to confirm(): up to the await in getWorkspaceList.
appDeleteWorkspace(w, confirmed) ==
  IF w.cw = NULL THEN w
  ELSE LET w1 == [w EXCEPT !.job = [JobIdle EXCEPT
                     !.kind = "delete", !.id = w.cw.id,
                     !.confirmed = confirmed,
                     !.pre = [stor |-> w.stor, cw |-> w.cw]]]
       IN IF isStorageAvailable
          THEN [Issue(w1, "get", ListKey, NULL, "job", "") EXCEPT
                  !.job.pc = "w_dlist"]
          ELSE JobRun([w1 EXCEPT !.job.list = <<DEFAULT_WORKSPACE_ID>>,
                                 !.job.i = 1, !.job.pc = "dload"])

\* importWorkspace(jsonString) (store.js:1126-1133)
importWorkspace(w, jsonString) ==
  LET data == JSONparse(jsonString)
      w1 == JobCalled(w, "import", <<>>)
  IN IF data = NULL THEN JobCatch(w1)
     ELSE IF "workspace" \notin DOMAIN data.v THEN JobCatch(w1)
     ELSE JobRun([w1 EXCEPT !.job.entries = <<data.v.workspace>>])

\* importAllWorkspaces(jsonString) (store.js:1223-1232)
importAllWorkspaces(w, jsonString) ==
  LET data == JSONparse(jsonString)
      w1 == JobCalled(w, "importAll", <<>>)
  IN IF data = NULL THEN JobCatch(w1)
     ELSE IF \/ "type" \notin DOMAIN data.v
             \/ "workspaces" \notin DOMAIN data.v
             \/ data.v.type # "all"
     THEN JobCatch(w1)
     ELSE JobRun([w1 EXCEPT !.job.entries = data.v.workspaces])

\* ------------------------------------------------------------------ state
SeedItem ==
  [id |-> [t |-> 0, r |-> 0], type |-> "note", title |-> "",
   position |-> [x |-> 2500, y |-> 2500], size |-> [width |-> 250, height |-> 180],
   createdAt |-> 0, updatedAt |-> 0, content |-> ""]

StoredWorkspace(id, name, items) ==
  [id |-> id, name |-> name, viewportX |-> 0, viewportY |-> 0, items |-> items,
   createdAt |-> 0, updatedAt |-> 0]

\* First run: nothing stored.
FreshStorage ==
  [ws |-> [i \in StorageIds |-> NULL], list |-> NULL, current |-> "",
   hist |-> [i \in StorageIds |-> NULL], over |-> FALSE]

\* A later run: two workspaces stored by earlier sessions.
UsedStorage ==
  [ws |-> [i \in StorageIds |->
             CASE i = "default" ->
                    StoredWorkspace("default", DEFAULT_WORKSPACE_NAME, <<>>)
               [] i = "alpha" -> StoredWorkspace("alpha", "Alpha", <<SeedItem>>)
               [] OTHER -> NULL],
   list |-> [v |-> <<"default", "alpha">>],
   current |-> "alpha",
   hist |-> [i \in StorageIds |-> NULL], over |-> FALSE]

\* The page is loaded over a storage that is one of stores; logged says
\* whether the run keeps what each task emitted.
StoreInitOver(stores, logged) ==
  /\ currentWorkspace = NULL
  /\ saveTimeout = 0
  /\ isInitialized = FALSE
  /\ timers = {}
  /\ timerSeq = 0
  /\ storage \in stores
  /\ inflight = <<>>
  /\ chromeAvailable = TRUE
  /\ faults = 0
  /\ sw = [p \in SwitchProcs |-> SwIdle]
  /\ now = 0
  /\ emitted = <<>>
  /\ calls = [edits |-> 0, switches |-> 0, acts |-> 0]
  /\ lastMem = [i \in StorageIds |-> NULL]
  /\ observing = logged
  /\ listeners = <<>>
  /\ invoked = <<>>
  /\ exported = NULL
  /\ job = JobIdle
  /\ storageLimitWarningShown = FALSE
  /\ alerts = 0

StoreInit == StoreInitOver({FreshStorage, UsedStorage}, FALSE)

NoAct == [name |-> "", pre |-> <<>>, pushed |-> <<>>, shiftKey |-> FALSE]

AreaRect == [width |-> 800, height |-> 600]

\* The History Manager as the script leaves it (history.js:13-16).
HistoryInit ==
  /\ undoStack = <<>>
  /\ redoStack = <<>>
  /\ currentWorkspaceId = ""
  /\ isRestoring = FALSE
  /\ last = NoCall
  /\ law = NoLaw
  /\ pushLog = <<>>

\* CanvasApp as its constructor leaves it (app.js:10-37); inputs are the
\* arguments a function will be applied to by itself.
AppInitWith(inputs) ==
  /\ input \in inputs
  /\ output = <<>>
  /\ panOffset = [x |-> 0, y |-> 0]
  /\ areaRect = AreaRect
  /\ gesture = NULL
  /\ historyDebounceTimer = FALSE
  /\ autoResizeTimers = {}
  /\ selectedItems = {}
  /\ isSelecting = FALSE
  /\ selectionStart = [x |-> 0, y |-> 0]
  /\ selectionBox = NULL
  /\ selectionBoxes = 0
  /\ isPanning = FALSE
  /\ panStart = [x |-> 0, y |-> 0]
  /\ isSpaceDown = FALSE
  /\ committed = NoGesture
  /\ act = NoAct

AppInit == AppInitWith({NULL})

Init == StoreInit /\ HistoryInit /\ AppInit

\* ---------------------------------------------------------------- actions
EnvUnchanged == UNCHANGED <<chromeAvailable, faults, now, calls>>

Edit == /\ calls.edits < MaxEdits
        /\ calls' = [calls EXCEPT !.edits = @ + 1]
        /\ UNCHANGED <<chromeAvailable, faults, now>>

Switch == /\ calls.switches < MaxSwitches
          /\ calls' = [calls EXCEPT !.switches = @ + 1]
          /\ UNCHANGED <<chromeAvailable, faults, now>>

\* The extension is reloaded or updated: chrome.storage is gone for this page.
ContextInvalidated ==
  /\ chromeAvailable
  /\ chromeAvailable' = FALSE
  /\ UNCHANGED <<currentWorkspace, saveTimeout, isInitialized, timers, timerSeq,
                 storage, inflight, faults, sw, now, emitted, calls, lastMem,
                 observing, listeners, invoked, exported, job,
                 storageLimitWarningShown, alerts, histVars, appVars,
                 calcVars>>

\* The oldest storage call settles, and the code awaiting it continues.
Settled(w, op, ok) ==
  LET w0 == [w EXCEPT !.q = Tail(@),
                      !.stor = IF ok /\ op.kind = "set"
                               THEN StorageSet(@, op.key, op.val)
                               ELSE IF ok /\ op.kind = "remove"
                               THEN StorageSet(@, op.key, NULL) ELSE @]
      val == IF op.kind = "get" THEN StorageGet(w.stor, op.key) ELSE NULL
      \* saveWorkspaceData, lines 786-788: after the write, the usage check
      w1 == IF ok /\ op.kind = "set" /\ op.key.k = "workspace"
            THEN checkStorageUsage(w0) ELSE w0
  IN IF op.proc \in SwitchProcs
     THEN SwRun(SwResume(w1, op.proc, ok, val), op.proc)
     ELSE IF op.proc = "job" THEN JobRun(JobResume(w1, ok, val))
     ELSE IF op.proc = "usage" THEN usageAnswered(w1, ok)
     ELSE IF op.proc = "loadHistory"
     THEN workspaceSwitchedResumes(loadHistoryAnswered(w1, op.key.id, ok, val))
     ELSE IF op.then = "saved" /\ w1.cw # NULL
          THEN emit(w1, "workspace:saved", w1.cw.id)
          ELSE w1

StorageOk ==
  /\ inflight # <<>>
  /\ chromeAvailable
  /\ Commit(Settled(World, Head(inflight), TRUE))
  /\ EnvUnchanged

StorageError ==
  /\ inflight # <<>>
  /\ Commit(Settled(World, Head(inflight), FALSE))
  /\ faults < MaxFaults
  /\ faults' = faults + 1
  /\ UNCHANGED <<chromeAvailable, now, calls>>

\* The debounce timer runs: () => saveNow()  (store.js:1553-1555)
TimerFire ==
  \E t \in timers :
    /\ Commit(saveNow([World EXCEPT !.timers = @ \ {t}], "none"))
    /\ EnvUnchanged

StoreTypes == {"note"}

CreateItem ==
  \E type \in StoreTypes :
    /\ Commit(createItem(World, type, [title |-> ""]))
    /\ Edit

ItemIds == IF currentWorkspace = NULL THEN {}
           ELSE {currentWorkspace.items[i].id : i \in 1..Len(currentWorkspace.items)}

UnknownId == [t |-> 0 - 1, r |-> 0]

UpdateItem ==
  \E id \in ItemIds \cup {UnknownId}, title \in Titles :
    /\ Commit(updateItem(World, id, [title |-> title]))
    /\ Edit

DeleteItem ==
  \E id \in ItemIds \cup {UnknownId} :
    /\ Commit(deleteItem(World, id))
    /\ Edit

ViewportOffsets == {0 - 40}

UpdateViewport ==
  \E x \in ViewportOffsets :
    /\ Commit(updateViewport(World, x, 0))
    /\ Edit

\* The app calls switchWorkspace while no other execution of it is in progress.
NoSwitchInProgress == \A p \in SwitchProcs : sw[p].pc = "idle"

SwitchWorkspace ==
  \E id \in WorkspaceIds :
    /\ NoSwitchInProgress
    /\ Commit(switchWorkspace(World, "p1", id))
    /\ Switch

\* CanvasApp.init calls Store.init (app.js:44), once.
StoreInitCall ==
  /\ NoSwitchInProgress
  /\ ~isInitialized
  /\ Commit(init(World, "p1"))
  /\ Switch

\* ------------------------------------------------- the user on the canvas
\* The user and the app's one-second timer are slower than the storage
\* calls and the zero-delay timeouts of the step before, which have run; a
\* new action also finds that the save timer (300 ms) has run. None of these
\* reads or writes the items in memory or the history stacks.
Paced == inflight = <<>> /\ autoResizeTimers = {}

Act == /\ calls.acts > 0
       /\ Paced
       /\ timers = {}
       /\ calls' = [calls EXCEPT !.acts = @ - 1]
       /\ UNCHANGED <<chromeAvailable, faults, now>>

\* No mouse button is held on an item.
MouseFree == gesture = NULL /\ ~isSelecting

ItemsOfType(type) ==
  {currentWorkspace.items[i].id :
     i \in {j \in 1..Len(getAllItems(World)) : currentWorkspace.items[j].type = type}}

EntryIds(checklistId) ==
  LET checklist == getItem(World, checklistId)
  IN {checklist.items[i].id : i \in 1..Len(checklist.items)}

RandomColors == {"pink"}
ScrollHeights == {60, 180}

AddNote ==
  /\ MouseFree
  /\ Commit(addNote(Enter(World, "addNote")))
  /\ Act

AddChecklist ==
  /\ MouseFree
  /\ Commit(addChecklist(Enter(World, "addChecklist")))
  /\ Act

AddContainer ==
  \E randomColor \in RandomColors :
    /\ MouseFree
    /\ Commit(addContainer(Enter(World, "addContainer"), randomColor))
    /\ Act

ImageSizes == {<<40, 30>>, <<1600, 900>>}

\* An image is pasted while nothing is being edited, and has loaded.
PasteImage ==
  \E d \in ImageSizes :
    /\ MouseFree
    /\ Commit(createImageFromPaste(Enter(World, "createImageFromPaste"),
                                   d[1], d[2]))
    /\ Act

\* click on [data-action="delete"] (app.js:501-503)
DeleteItemClick ==
  \E id \in ItemIds :
    /\ MouseFree
    /\ Commit(appDeleteItem(Enter(World, "deleteItem"), id))
    /\ Act

\* click on [data-action="cycle-color"] (app.js:507-509)
CycleColorClick ==
  \E id \in ItemsOfType("container") :
    /\ MouseFree
    /\ Commit(cycleContainerColor(Enter(World, "cycleContainerColor"), id))
    /\ Act

\* click on [data-action="add-checklist-item"], or Enter in an entry
\* (app.js:510-512, 575-577)
AddChecklistItemClick ==
  \E id \in ItemsOfType("checklist") :
    /\ MouseFree
    /\ Commit(addChecklistItem(Enter(World, "addChecklistItem"), id))
    /\ Act

\* change of an entry's checkbox (app.js:553-562): checked is the new state
ToggleEntry(id, entry) ==
  LET checklist == getItem(World, id)
      checked == ~checklist.items[IndexOfEntry(checklist, entry)].completed
  IN /\ MouseFree
     /\ Commit(toggleChecklistItem(Enter(World, "toggleChecklistItem"),
                                   id, entry, checked))
     /\ Act

ToggleChecklistItemChange ==
  \E id \in ItemsOfType("checklist") :
    \E entry \in EntryIds(id) : ToggleEntry(id, entry)

\* click on [data-action="delete-checklist-item"] (app.js:513-518)
DeleteChecklistItemClick ==
  \E id \in ItemsOfType("checklist"), scrollHeight \in ScrollHeights :
    \E entry \in EntryIds(id) :
      /\ MouseFree
      /\ Commit(deleteChecklistItem(Enter(World, "deleteChecklistItem"),
                                    id, entry, scrollHeight))
      /\ Act

\* Tab or Shift+Tab in an entry (app.js:578-581)
ToggleNestingKey ==
  \E id \in ItemsOfType("checklist"), indent \in BOOLEAN :
    \E entry \in EntryIds(id) :
      /\ MouseFree
      /\ Commit(toggleChecklistItemNesting(
                  EnterMouse(World, "toggleChecklistItemNesting", ~indent),
                  id, entry, indent))
      /\ Act

\* input in a title field (app.js:531-539)
InputTitle ==
  \E id \in ItemIds, value \in Titles :
    /\ MouseFree
    /\ Commit(inputTitle(Enter(World, "inputTitle"), id, value))
    /\ Act

\* input in the content of a note (app.js:540-542)
Contents == {"c"}

InputContent ==
  \E id \in ItemsOfType("note"), value \in Contents :
    /\ MouseFree
    /\ Commit(inputContent(Enter(World, "inputContent"), id, value))
    /\ Act

\* input in the text field of a checklist entry (app.js:543-549)
EntryTexts == <<"A", "B", "C">>

TypeEntryText(id, entry, text) ==
  /\ MouseFree
  /\ Commit(updateChecklistItemText(Enter(World, "updateChecklistItemText"),
                                    id, entry, text))
  /\ Act

InputEntryText ==
  \E id \in ItemsOfType("checklist") :
    \E entry \in EntryIds(id), n \in 1..Len(EntryTexts) :
      TypeEntryText(id, entry, EntryTexts[n])

\* The timer of pushHistoryDebounced runs, one second after the last edit.
DebounceTimerFires ==
  /\ historyDebounceTimer
  /\ Commit(historyDebounceRuns(Enter(World, "pushHistoryDebounced")))
  /\ EnvUnchanged

HistoryDebounceTimerRuns == Paced /\ DebounceTimerFires

AutoResizeTimerRuns ==
  \E id \in autoResizeTimers, scrollHeight \in ScrollHeights :
    /\ Commit(autoResizeChecklist(
                [Enter(World, "autoResizeChecklist") EXCEPT !.art = @ \ {id}],
                id, scrollHeight))
    /\ EnvUnchanged

\* Ctrl+Z (app.js:251-266)
UndoKey ==
  /\ MouseFree
  /\ Commit(appUndo(Enter(World, "undo")))
  /\ Act

\* Ctrl+Shift+Z or Ctrl+Y
RedoKey ==
  /\ MouseFree
  /\ Commit(appRedo(Enter(World, "redo")))
  /\ Act

\* mousedown on an item (app.js:459-485)
StartDrag ==
  \E id \in ItemIds :
    /\ MouseFree
    /\ Commit(mousedown(EnterMouse(World, "startDrag", FALSE), id, FALSE))
    /\ Act

\* The same with Shift held.
ShiftMouseDown ==
  \E id \in ItemIds :
    /\ MouseFree
    /\ Commit(mousedown(EnterMouse(World, "startDrag", TRUE), id, TRUE))
    /\ Act

ResizeHandles == {"se", "e", "s"}

\* mousedown on a resize handle of an item (app.js:466-470)
StartResize ==
  \E id \in ItemIds, handle \in ResizeHandles :
    /\ MouseFree
    /\ Commit(startResize(Enter(World, "startResize"), id, handle))
    /\ Act

\* mousemove while a button is held: the pointer is at (deltaX, deltaY) from
\* where it was pressed, one of the pairs of D.
MouseMove(D) ==
  \E d \in D :
    /\ gesture # NULL
    /\ Paced
    /\ Commit(IF gesture.kind = "drag"
              THEN dragMouseMove(Enter(World, "onMouseMove"), d[1], d[2])
              ELSE resizeMouseMove(Enter(World, "onMouseMove"), d[1], d[2]))
    /\ EnvUnchanged

MouseUp ==
  /\ gesture # NULL
  /\ Paced
  /\ Commit(IF gesture.kind = "drag"
            THEN dragMouseUp(Enter(World, "onMouseUp"))
            ELSE resizeMouseUp(Enter(World, "onMouseUp")))
  /\ EnvUnchanged

\* The Store over a storage port that answers every call.
Next ==
  \/ StorageOk
  \/ TimerFire
  \/ CreateItem
  \/ UpdateItem
  \/ DeleteItem
  \/ UpdateViewport
  \/ SwitchWorkspace
  \/ StoreInitCall

Spec == Init /\ [][Next]_vars

\* The Store over a storage port whose calls may be rejected and whose API may
\* disappear (the extension context is invalidated).
NextFaults ==
  \/ StorageOk
  \/ StorageError
  \/ ContextInvalidated
  \/ TimerFire
  \/ CreateItem
  \/ SwitchWorkspace
  \/ StoreInitCall

SpecFaults == Init /\ [][NextFaults]_vars

\* The same over a storage that holds two workspaces, the run keeping what
\* each task emitted.
InitSaved == StoreInitOver({UsedStorage}, TRUE) /\ HistoryInit /\ AppInit

SpecSaved == InitSaved /\ [][NextFaults]_vars

\* ------------------------------------------------------ the app in use
\* A checklist with one entry and a container, as the app creates them.
SeedChecklist ==
  [id |-> [t |-> 0, r |-> 1], type |-> "checklist", title |-> "",
   position |-> [x |-> 300, y |-> 220], size |-> [width |-> 280, height |-> 200],
   createdAt |-> 0, updatedAt |-> 0,
   items |-> <<[id |-> [t |-> 0, r |-> 0], text |-> "", completed |-> FALSE,
                nested |-> 0]>>]

SeedContainer ==
  [id |-> [t |-> 0, r |-> 2], type |-> "container", title |-> "",
   position |-> [x |-> 300, y |-> 220], size |-> [width |-> 350, height |-> 250],
   createdAt |-> 0, updatedAt |-> 0, color |-> "pink", children |-> <<>>]

\* CanvasApp.init has completed (app.js:39-71): the Store has loaded the
\* default workspace, which holds the given items, and the History Manager
\* the given undo stack; the view is panned to pan.
LoadedOver(stored, subscribed, items, history, pan, acts, logged) ==
  /\ currentWorkspace =
       StoredWorkspace(DEFAULT_WORKSPACE_ID, DEFAULT_WORKSPACE_NAME, items)
  /\ saveTimeout = 0
  /\ isInitialized = TRUE
  /\ timers = {}
  /\ timerSeq = 0
  /\ storage =
       [stored EXCEPT
          !.ws[DEFAULT_WORKSPACE_ID] = currentWorkspace,
          !.list = IF stored.list = NULL THEN [v |-> <<DEFAULT_WORKSPACE_ID>>]
                   ELSE stored.list,
          !.current = DEFAULT_WORKSPACE_ID,
          !.hist[DEFAULT_WORKSPACE_ID] =
             IF history = <<>> THEN NULL
             ELSE [undoStack |-> history, redoStack |-> <<>>]]
  /\ inflight = <<>>
  /\ chromeAvailable = TRUE
  /\ faults = 0
  /\ sw = [p \in SwitchProcs |-> SwIdle]
  /\ now = 0
  /\ emitted = <<>>
  /\ calls = [edits |-> 0, switches |-> 0, acts |-> acts]
  /\ lastMem = [i \in StorageIds |-> NULL]
  /\ observing = logged
  /\ listeners = subscribed
  /\ invoked = <<>>
  /\ exported = NULL
  /\ job = JobIdle
  /\ storageLimitWarningShown = FALSE
  /\ alerts = 0
  /\ undoStack = history
  /\ redoStack = <<>>
  /\ currentWorkspaceId = DEFAULT_WORKSPACE_ID
  /\ isRestoring = FALSE
  /\ last = NoCall
  /\ law = NoLaw
  /\ pushLog = <<>>
  /\ panOffset = pan
  /\ areaRect = AreaRect
  /\ gesture = NULL
  /\ historyDebounceTimer = FALSE
  /\ autoResizeTimers = {}
  /\ selectedItems = {}
  /\ isSelecting = FALSE
  /\ selectionStart = [x |-> 0, y |-> 0]
  /\ selectionBox = NULL
  /\ selectionBoxes = 0
  /\ isPanning = FALSE
  /\ panStart = [x |-> 0, y |-> 0]
  /\ isSpaceDown = FALSE
  /\ committed = NoGesture
  /\ act = NoAct
  /\ input = NULL
  /\ output = <<>>

\* The same over a storage that held nothing else, the handler of
\* workspace:switched left out: runs that do not switch.
Loaded(items, history, pan, acts, logged) ==
  LoadedOver(FreshStorage, <<>>, items, history, pan, acts, logged)

NoPan == [x |-> 0, y |-> 0]

InitApp ==
  \/ Loaded(<<>>, <<>>, NoPan, MaxActs, FALSE)
  \/ Loaded(<<SeedChecklist, SeedContainer>>, << <<>> >>, NoPan, MaxActs, FALSE)

AppDeltas == {<<40, 20>>}

\* The user does any of the things the app offers on items.
NextApp ==
  \/ AddNote
  \/ AddChecklist
  \/ AddContainer
  \/ DeleteItemClick
  \/ CycleColorClick
  \/ AddChecklistItemClick
  \/ ToggleChecklistItemChange
  \/ DeleteChecklistItemClick
  \/ ToggleNestingKey
  \/ InputTitle
  \/ HistoryDebounceTimerRuns
  \/ AutoResizeTimerRuns
  \/ UndoKey
  \/ RedoKey
  \/ StartDrag
  \/ StartResize
  \/ MouseMove(AppDeltas)
  \/ MouseUp
  \/ TimerFire
  \/ StorageOk

SpecApp == InitApp /\ [][NextApp]_vars

InitHistory ==
  \/ Loaded(<<>>, <<>>, NoPan, MaxHistoryActs, FALSE)
  \/ Loaded(<<SeedChecklist>>, << <<>> >>, NoPan, MaxHistoryActs, FALSE)

\* The user edits, undoes and redoes.
NextHistory ==
  \/ AddNote
  \/ DeleteItemClick
  \/ InputTitle
  \/ HistoryDebounceTimerRuns
  \/ UndoKey
  \/ RedoKey
  \/ TimerFire
  \/ StorageOk

SpecHistory == InitHistory /\ [][NextHistory]_vars

\* The view panned to the far corner of the canvas.
FarPan == [x |-> 0 - 4000, y |-> 0 - 4200]

InitGesture ==
  \/ Loaded(<<>>, <<>>, NoPan, MaxGestureActs, FALSE)
  \/ \E pan \in {NoPan, FarPan} :
       Loaded(<<[SeedChecklist EXCEPT !.position = NewItemPosition(pan, AreaRect)],
                [SeedContainer EXCEPT !.position = NewItemPosition(pan, AreaRect)]>>,
              <<>>, pan, MaxGestureActs, FALSE)

\* The pointer's way from where the button was pressed, in pixels.
GestureDeltas ==
  {<<0 - 1000, 0 - 1000>>, <<0 - 270, 0 - 190>>, <<1000, 1000>>}

\* The user creates items, drags and resizes them.
NextGesture ==
  \/ AddNote
  \/ AddChecklist
  \/ AddContainer
  \/ PasteImage
  \/ StartDrag
  \/ StartResize
  \/ MouseMove(GestureDeltas)
  \/ MouseUp
  \/ TimerFire
  \/ StorageOk

SpecGesture == InitGesture /\ [][NextGesture]_vars

\* The user fills the history: one action after the other, each pushing.
InitDepth == Loaded(<<SeedContainer>>, <<>>, NoPan, MaxPushes, TRUE)

NextDepth ==
  \/ CycleColorClick
  \/ TimerFire
  \/ StorageOk

SpecDepth == InitDepth /\ [][NextDepth]_vars

\* The history is empty, or one short of full: an earlier session has
\* pushed, and the stacks were loaded. The user changes the colour, undoes
\* and redoes.
AlmostFull == [i \in 1..MAX_HISTORY - 1 |-> <<SeedContainer>>]

InitCombined ==
  \E history \in {<<>>, AlmostFull} :
    Loaded(<<SeedContainer>>, history, NoPan, MaxHistoryActs, FALSE)

NextCombined ==
  \/ CycleColorClick
  \/ UndoKey
  \/ RedoKey
  \/ TimerFire
  \/ StorageOk

SpecCombined == InitCombined /\ [][NextCombined]_vars

\* A container of the minimum size with a note centred at (150, 150) in it,
\* a note beside it and a container that overlaps it, as drags and resizes
\* leave them.
GroupItems ==
  <<[SeedContainer EXCEPT !.position = [x |-> 100, y |-> 100],
                          !.size = [width |-> 300, height |-> 200]],
    [SeedItem EXCEPT !.id = [t |-> 0, r |-> 3],
                     !.position = [x |-> 40, y |-> 100],
                     !.size = [width |-> 220, height |-> 100]],
    [SeedItem EXCEPT !.id = [t |-> 0, r |-> 4],
                     !.position = [x |-> 500, y |-> 100]],
    [SeedContainer EXCEPT !.id = [t |-> 0, r |-> 5],
                          !.position = [x |-> 120, y |-> 120],
                          !.size = [width |-> 300, height |-> 200]]>>

InitGroup == Loaded(GroupItems, <<>>, NoPan, MaxGroupActs, FALSE)

GroupDeltas == {<<50, 50>>, <<0 - 300, 0>>, <<0 - 1000, 0 - 1000>>}

\* The user drags items, containers among them.
NextGroup ==
  \/ StartDrag
  \/ MouseMove(GroupDeltas)
  \/ MouseUp
  \/ TimerFire
  \/ StorageOk

SpecGroup == InitGroup /\ [][NextGroup]_vars

\* The container and the note in it, the run keeping what each task
\* emitted: the user drags and resizes them.
InitPointer == Loaded(SubSeq(GroupItems, 1, 2), <<>>, NoPan, MaxGroupActs, TRUE)

PointerDeltas == {<<50, 50>>, <<0 - 1000, 0 - 1000>>}

NextPointer ==
  \/ StartDrag
  \/ StartResize
  \/ MouseMove(PointerDeltas)
  \/ MouseUp
  \/ TimerFire
  \/ StorageOk

SpecPointer == InitPointer /\ [][NextPointer]_vars

\* ------------------------------------------------- exporting and importing
\* app.js:687-706: the export of the current workspace is downloaded.
ExportWorkspace ==
  /\ job.pc = "idle"
  /\ LET json == exportWorkspace(World)
     IN Commit(IF json = NULL THEN World
               ELSE [World EXCEPT !.file = [json |-> json, of |-> currentWorkspace]])
  /\ Act

\* An entry of a file of workspaces as exportAllWorkspaces writes it
\* (store.js:1193-1200), one without a name and one whose items is a string.
ValidEntry ==
  [name |-> "Notes", viewportX |-> 0 - 40, viewportY |-> 0,
   items |-> JArray(<<SeedItem>>), createdAt |-> 0, updatedAt |-> 0]
NamelessEntry == [ValidEntry EXCEPT !.name = ""]
StringItemsEntry == [ValidEntry EXCEPT !.items = [t |-> "string", v |-> <<>>]]
NullItemsEntry == [ValidEntry EXCEPT !.items = [t |-> "null", v |-> <<>>]]

\* Files the user may pick that no export wrote: text that is not JSON, a
\* document without workspace, and documents of one entry each.
PickedTexts ==
  {[text |-> "not json"], [text |-> "json", data |-> [version |-> 1]]}
  \cup {[text |-> "json", data |-> [version |-> 1, workspace |-> e]] :
          e \in {NamelessEntry, StringItemsEntry, NullItemsEntry}}

FreeIds ==
  {id \in NewWorkspaceIds :
     storage.ws[id] = NULL /\ ~SeqContains(storage.list.v, id)}

\* Store.importWorkspace(text) (app.js:741) of the file that was exported
\* or of another file.
ImportWorkspace ==
  \E text \in (IF exported = NULL THEN {} ELSE {exported.json}) \cup PickedTexts :
    /\ job.pc = "idle"
    /\ FreeIds # {}
    /\ Commit(importWorkspace(World, text))
    /\ Act

BulkEntries == {ValidEntry, NamelessEntry, StringItemsEntry}

BulkTexts ==
  {[text |-> "json",
    data |-> [version |-> 1, exportedAt |-> 0, type |-> "all", workspaces |-> es]] :
     es \in UNION {[1..n -> BulkEntries] : n \in 1..MaxEntries}}
  \cup {[text |-> "not json"], [text |-> "json", data |-> [version |-> 1]]}

\* Store.importAllWorkspaces(text) (app.js:734)
ImportAllWorkspaces ==
  \E text \in BulkTexts :
    /\ job.pc = "idle"
    /\ Cardinality(FreeIds) >= MaxEntries
    /\ Commit(importAllWorkspaces(World, text))
    /\ Act

InitImport ==
  \/ Loaded(<<SeedItem, SeedChecklist>>, <<>>, NoPan, MaxImportActs, TRUE)
  \/ Loaded(<<>>, <<>>, NoPan, MaxImportActs, TRUE)

\* The user exports the workspace and imports files.
NextImport ==
  \/ ExportWorkspace
  \/ ImportWorkspace
  \/ ImportAllWorkspaces
  \/ AddNote
  \/ TimerFire
  \/ StorageOk

SpecImport == InitImport /\ [][NextImport]_vars

\* ------------------------------------------------------------- selecting
\* Points of the surface: clear of every item, on the corner of the note, and
\* inside the checklist and the container.
SurfacePoints ==
  {<<2400, 2400>>, <<2403, 2403>>, <<2402, 2600>>, <<2500, 2500>>,
   <<400, 300>>}

\* The user presses the button on the background, Space not held.
CanvasMouseDown ==
  \E p \in SurfacePoints :
    /\ MouseFree
    /\ Commit(startSelection(Enter(World, "startSelection"), p[1], p[2]))
    /\ Act

CanvasMouseMove ==
  \E p \in SurfacePoints :
    /\ isSelecting
    /\ Paced
    /\ Commit(updateSelection(Enter(World, "updateSelection"), p[1], p[2]))
    /\ EnvUnchanged

\* The button is released, or the pointer leaves the area (app.js:444-445).
CanvasMouseUp ==
  \E shiftKey \in BOOLEAN :
    /\ isSelecting
    /\ Paced
    /\ Commit(endSelection(EnterMouse(World, "endSelection", shiftKey),
                           shiftKey))
    /\ EnvUnchanged

\* A click on the surface (app.js:448-452)
CanvasClick ==
  /\ MouseFree
  /\ Commit(deselectAll(Enter(World, "click")))
  /\ Act

\* handleCanvasMouseUp (app.js:1374-1384), of mouseup and of mouseleave
handleCanvasMouseUp(w, shiftKey) ==
  IF w.panning
  THEN updateViewport([w EXCEPT !.panning = FALSE], w.pan.x, w.pan.y)
  ELSE IF w.selecting THEN endSelection(w, shiftKey)
  ELSE w

\* Points of the canvas area, in client coordinates
ClientPoints == {<<100, 100>>, <<160, 140>>}

\* A button of the mouse is pressed on the background, another button held
\* or not: the handler does not look at the button.
BackgroundMouseDown ==
  \E p \in ClientPoints :
    /\ gesture = NULL
    /\ Commit(handleCanvasMouseDown(Enter(World, "handleCanvasMouseDown"),
                                    p[1], p[2]))
    /\ Act

BackgroundMouseMove ==
  \E p \in ClientPoints :
    /\ Paced
    /\ Commit(handleCanvasMouseMove(Enter(World, "handleCanvasMouseMove"),
                                    p[1], p[2]))
    /\ EnvUnchanged

\* A button is released over the area, or the pointer leaves the area
\* (app.js:444-445).
BackgroundMouseUp ==
  /\ Paced
  /\ Commit(handleCanvasMouseUp(Enter(World, "handleCanvasMouseUp"), FALSE))
  /\ EnvUnchanged

SpaceKeyDown ==
  /\ Commit(spaceKeyDown(Enter(World, "spaceKeyDown")))
  /\ EnvUnchanged

SpaceKeyUp ==
  /\ Commit(spaceKeyUp(Enter(World, "spaceKeyUp")))
  /\ EnvUnchanged

InitModes == Loaded(<<SeedItem>>, <<>>, NoPan, MaxModeActs, FALSE)

\* The user presses, moves and releases the mouse on the background and
\* presses and releases Space; the save timer runs when its time is over.
NextModes ==
  \/ BackgroundMouseDown
  \/ BackgroundMouseMove
  \/ BackgroundMouseUp
  \/ SpaceKeyDown
  \/ SpaceKeyUp
  \/ TimerFire
  \/ StorageOk

SpecModes == InitModes /\ [][NextModes]_vars

InitSelect ==
  Loaded(<<SeedItem, SeedChecklist, SeedContainer>>, <<>>, NoPan,
         MaxSelectActs, FALSE)

\* The user selects items with the mouse.
NextSelect ==
  \/ StartDrag
  \/ ShiftMouseDown
  \/ MouseUp
  \/ CanvasMouseDown
  \/ CanvasMouseMove
  \/ CanvasMouseUp
  \/ CanvasClick
  \/ StorageOk

SpecSelect == InitSelect /\ [][NextSelect]_vars

\* The orders in which the ids of S can have been added to it.
Orders(S) ==
  {order \in [1..Cardinality(S) -> S] :
     \A i, j \in 1..Cardinality(S) : order[i] = order[j] => i = j}

\* Delete or Backspace, the focus not in a field (app.js:860-879)
DeleteKey ==
  \E order \in Orders(selectedItems) :
    /\ MouseFree
    /\ Commit(deleteSelectedItems(Enter(World, "deleteSelectedItems"), order))
    /\ Act

\* The user selects items with a rubber band, deletes them and undoes.
NextMultiDelete ==
  \/ CanvasMouseDown
  \/ CanvasMouseMove
  \/ CanvasMouseUp
  \/ DeleteKey
  \/ UndoKey
  \/ TimerFire
  \/ StorageOk

SpecMultiDelete == InitSelect /\ [][NextMultiDelete]_vars

\* ------------------------------------------------- calls the Store refuses
InitGuards ==
  StoreInitOver({FreshStorage, UsedStorage}, TRUE) /\ HistoryInit /\ AppInit

\* The Store is called before and after a workspace is loaded, with ids of
\* items and with an id of no item.
NextGuards ==
  \/ StoreInitCall
  \/ CreateItem
  \/ UpdateItem
  \/ DeleteItem
  \/ TimerFire
  \/ StorageOk

SpecGuards == InitGuards /\ [][NextGuards]_vars

\* ------------------------------------------------------------ subscribers
\* Callbacks that return and callbacks that throw.
Callbacks ==
  {[h |-> "a", throws |-> FALSE], [h |-> "b", throws |-> TRUE],
   [h |-> "c", throws |-> TRUE]}

SubscribedEvents == {"item:created", "item:updated"}

\* Store.on(event, callback)
Subscribe ==
  \E event \in SubscribedEvents, callback \in Callbacks :
    /\ Len(listeners) < MaxSubscriptions
    /\ event = "item:updated" => callback.h = "b"
    /\ Commit(on(World, event, callback))
    /\ EnvUnchanged

\* Store.off(event, callback)
Unsubscribe ==
  \E event \in SubscribedEvents, callback \in Callbacks :
    /\ SeqContains(listeners, [event |-> event, callback |-> callback])
    /\ Commit(off(World, event, callback))
    /\ EnvUnchanged

InitEmit ==
  StoreInitOver({UsedStorage}, TRUE) /\ HistoryInit /\ AppInit

\* Code subscribes to the events of the Store, which is then used.
NextEmit ==
  \/ StoreInitCall
  \/ Subscribe
  \/ Unsubscribe
  \/ CreateItem
  \/ UpdateItem
  \/ TimerFire
  \/ StorageOk

SpecEmit == InitEmit /\ [][NextEmit]_vars

\* --------------------------------------------------- switching workspaces
\* The Store is initialized and switched, to workspaces that are stored
\* and to others, while items are created.
NextSwitch ==
  \/ StoreInitCall
  \/ SwitchWorkspace
  \/ CreateItem
  \/ TimerFire
  \/ StorageOk

SpecSwitch == InitGuards /\ [][NextSwitch]_vars

\* ------------------------------------------- history while switching
\* The app is in use over two stored workspaces: the user edits a title,
\* adds notes and switches; the debounce timer runs when its second is
\* over, whatever is in progress.
InitPerWorkspace ==
  LoadedOver(UsedStorage, <<AppSubscription>>, <<SeedItem>>, <<>>, NoPan,
             MaxActs, TRUE)

NextPerWorkspace ==
  \/ InputTitle
  \/ AddNote
  \/ DebounceTimerFires
  \/ SwitchWorkspace
  \/ TimerFire
  \/ StorageOk

SpecPerWorkspace == InitPerWorkspace /\ [][NextPerWorkspace]_vars

\* The same app over a storage port whose calls may be rejected: the user
\* adds notes and switches.
NextBinding ==
  \/ AddNote
  \/ SwitchWorkspace
  \/ TimerFire
  \/ StorageOk
  \/ StorageError

SpecBinding == InitPerWorkspace /\ [][NextBinding]_vars

\* ------------------------------------------------ typing in the fields
\* A note and a checklist are on the canvas and nothing has been done yet.
\* The user types in titles, in the note and in the entry, and undoes; the
\* debounce timer runs when a second has passed since the last input, which
\* ends the burst.
BeforeTyping == <<SeedItem, SeedChecklist>>

InitTyping == Loaded(BeforeTyping, <<>>, NoPan, MaxTextActs, TRUE)

NextTyping ==
  \/ InputTitle
  \/ InputContent
  \/ InputEntryText
  \/ HistoryDebounceTimerRuns
  \/ UndoKey
  \/ TimerFire
  \/ StorageOk

SpecTyping == InitTyping /\ [][NextTyping]_vars

\* ------------------------------------------------- undoing and redoing
\* A note of an imported file that gave it a title and a content only:
\* importWorkspace copies the members the file has and sets the id
\* (store.js:1150-1158).
ImportedNote ==
  [id |-> [t |-> 0, r |-> 1], type |-> "note", title |-> "", content |-> ""]

\* The workspace holds a note of the app, or that note and an imported one.
InitRestore ==
  \/ Loaded(<<SeedItem>>, <<>>, NoPan, MaxHistoryActs, TRUE)
  \/ Loaded(<<SeedItem, ImportedNote>>, <<>>, NoPan, MaxHistoryActs, TRUE)

\* The user adds notes, undoes and redoes.
NextRestore ==
  \/ AddNote
  \/ UndoKey
  \/ RedoKey
  \/ TimerFire
  \/ StorageOk

SpecRestore == InitRestore /\ [][NextRestore]_vars

\* ------------------------------------------------- indenting entries
\* A checklist with an entry the app has added and an entry of an imported
\* file that has no nested member.
NestingChecklist ==
  [SeedChecklist EXCEPT
     !.items = Append(@, [id |-> [t |-> 0, r |-> 1], text |-> "",
                          completed |-> FALSE])]

InitNesting == Loaded(<<NestingChecklist>>, <<>>, NoPan, MaxNestingActs, FALSE)

\* The user presses Tab and Shift+Tab in the entries, and undoes.
NextNesting ==
  \/ ToggleNestingKey
  \/ UndoKey
  \/ TimerFire
  \/ StorageOk

SpecNesting == InitNesting /\ [][NextNesting]_vars

\* ------------------------------------------------ items given with an id
\* The Store is called with data and changes that have an id of their own:
\* the id of an item of the workspace, or an id of no item.
CreateItemData ==
  \E type \in StoreTypes, id \in ItemIds \cup {UnknownId} :
    /\ Commit(createItem(World, type, [id |-> id]))
    /\ Edit

UpdateItemChanges ==
  \E id \in ItemIds, other \in ItemIds \cup {UnknownId} :
    /\ Commit(updateItem(World, id, [id |-> other]))
    /\ Edit

InitIds == Loaded(<<SeedItem>>, <<>>, NoPan, MaxActs, TRUE)

NextIds ==
  \/ CreateItem
  \/ CreateItemData
  \/ UpdateItem
  \/ UpdateItemChanges
  \/ DeleteItem
  \/ AddNote
  \/ UndoKey
  \/ RedoKey
  \/ TimerFire
  \/ StorageOk

SpecIds == InitIds /\ [][NextIds]_vars

\* ------------------------------------------- the geometry functions alone
Rects ==
  [left : 0..MaxCorner, top : 0..MaxCorner,
   width : 0..MaxExtent, height : 0..MaxExtent]

RectPairs == {[fn |-> "checkIntersection", a |-> A, b |-> B] : A, B \in Rects}

Coordinates == {[fn |-> "snap", x |-> x] : x \in (0 - MaxCoordinate)..MaxCoordinate}

InitGeometry ==
  StoreInitOver({FreshStorage}, FALSE) /\ HistoryInit
  /\ AppInitWith(RectPairs \cup Coordinates)

\* checkIntersection is applied to the two rectangles.
CheckIntersection ==
  /\ input.fn = "checkIntersection"
  /\ output = <<>>
  /\ output' = <<checkIntersection(input.a, input.b)>>
  /\ UNCHANGED <<storeVars, histVars, appVars, input>>

\* The coordinate is snapped, and what was snapped is snapped again.
SnapCoordinate ==
  /\ input.fn = "snap"
  /\ Len(output) < 2
  /\ output' = Append(output, Snap(IF output = <<>> THEN input.x
                                   ELSE output[Len(output)]))
  /\ UNCHANGED <<storeVars, histVars, appVars, input>>

NextGeometry ==
  \/ CheckIntersection
  \/ SnapCoordinate

SpecGeometry == InitGeometry /\ [][NextGeometry]_vars

\* ------------------------------------------------ the checklist scenario
\* The commands of the scenario, in order: a checklist is created, three
\* entries are added and named, the second is completed, and five undos.
Script ==
  <<"addChecklist", "addChecklistItem", "text", "addChecklistItem", "text",
    "addChecklistItem", "text", "toggle", "undo", "undo", "undo", "undo",
    "undo">>

\* The command the user gives next.
Step(name) ==
  /\ calls.acts > 0
  /\ Script[Len(Script) - calls.acts + 1] = name

TheChecklist == getAllItems(World)[1]

ScenarioAddChecklist == Step("addChecklist") /\ AddChecklist

ScenarioAddEntry == Step("addChecklistItem") /\ AddChecklistItemClick

\* The entry added last is named after its place in the list.
ScenarioTypeText ==
  /\ Step("text")
  /\ LET n == Len(TheChecklist.items)
     IN TypeEntryText(TheChecklist.id, TheChecklist.items[n].id, EntryTexts[n])

ScenarioToggle ==
  Step("toggle") /\ ToggleEntry(TheChecklist.id, TheChecklist.items[2].id)

ScenarioUndo == Step("undo") /\ UndoKey

InitScenario == Loaded(<<>>, <<>>, NoPan, Len(Script), FALSE)

\* The timers run between the commands; the debounce timer of the text
\* edits runs or is still pending.
NextScenario ==
  \/ ScenarioAddChecklist
  \/ ScenarioAddEntry
  \/ ScenarioTypeText
  \/ ScenarioToggle
  \/ ScenarioUndo
  \/ HistoryDebounceTimerRuns
  \/ AutoResizeTimerRuns
  \/ TimerFire
  \/ StorageOk

SpecScenario == InitScenario /\ [][NextScenario]_vars

\* ----------------------------------------------- storage over its limit
\* Two workspaces stored by earlier sessions, in more than 100 MB.
StorageOverLimit == [UsedStorage EXCEPT !.over = TRUE]

\* The Store is initialized over it, items are created and the workspace
\* is switched.
NextQuota ==
  \/ StoreInitCall
  \/ CreateItem
  \/ SwitchWorkspace
  \/ TimerFire
  \/ StorageOk

InitQuota ==
  StoreInitOver({StorageOverLimit}, FALSE) /\ HistoryInit /\ AppInit

SpecQuota == InitQuota /\ [][NextQuota]_vars

\* ---------------------------------------------------- renaming a workspace
NewNames == {"Renamed"}

\* The user renames a workspace of the list.
RenameWorkspace ==
  \E id \in WorkspaceIds, newName \in NewNames :
    /\ job.pc = "idle"
    /\ Commit(renameWorkspace(World, id, newName))
    /\ Edit

\* Two workspaces are stored and the first is loaded. Items are created
\* and updated and workspaces renamed; the save timer runs when its time is over.
InitRename ==
  LoadedOver(UsedStorage, <<>>, <<SeedItem>>, <<>>, NoPan, MaxActs, TRUE)

NextRename ==
  \/ CreateItem
  \/ UpdateItem
  \/ RenameWorkspace
  \/ TimerFire
  \/ StorageOk

SpecRename == InitRename /\ [][NextRename]_vars

\* ------------------------------------------------ exporting every workspace
\* The user chooses "export all" (app.js:708-709).
ExportAllWorkspaces ==
  /\ job.pc = "idle"
  /\ Commit(exportAllWorkspaces(World))
  /\ Edit

InitExportAll ==
  LoadedOver(UsedStorage, <<>>, <<SeedItem>>, <<>>, NoPan, MaxActs, TRUE)

\* Items are created and updated and every workspace is exported; the save
\* timer runs when its time is over.
NextExportAll ==
  \/ CreateItem
  \/ UpdateItem
  \/ ExportAllWorkspaces
  \/ TimerFire
  \/ StorageOk

SpecExportAll == InitExportAll /\ [][NextExportAll]_vars

\* --------------------------------------------------- deleting a workspace
\* The user chooses "delete workspace" and answers the confirmation.
DeleteWorkspaceClick ==
  \E confirmed \in BOOLEAN :
    /\ job.pc = "idle"
    /\ NoSwitchInProgress
    /\ isInitialized
    /\ Commit(appDeleteWorkspace(World, confirmed))
    /\ Switch

\* Two workspaces stored by earlier sessions, with the history of one.
StorageWithHistory ==
  [UsedStorage EXCEPT
     !.hist["alpha"] = [undoStack |-> << <<>> >>, redoStack |-> <<>>]]

InitDelete ==
  StoreInitOver({FreshStorage, StorageWithHistory}, FALSE)
  /\ HistoryInit /\ AppInit

\* The Store is initialized, the user edits and deletes the workspace.
NextDelete ==
  \/ StoreInitCall
  \/ CreateItem
  \/ DeleteWorkspaceClick
  \/ TimerFire
  \/ StorageOk

SpecDelete == InitDelete /\ [][NextDelete]_vars

\* Store.createWorkspace(name) (app.js:631)
CreateWorkspace ==
  /\ job.pc = "idle"
  /\ FreeIds # {}
  /\ Commit(createWorkspace(World, "Plans"))
  /\ Act

\* Store.deleteWorkspace(id) of a workspace of the list or of another id
DeleteWorkspace ==
  \E id \in WorkspaceIds \cup NewWorkspaceIds :
    /\ job.pc = "idle"
    /\ NoSwitchInProgress
    /\ id = "ghost" \/ SeqContains(storage.list.v, id)
    /\ Commit(JobRun(deleteWorkspace(World, id)))
    /\ Act

\* The page is loaded over a storage of one workspace or of two.
InitWorkspaces ==
  \/ LoadedOver(FreshStorage, <<AppSubscription>>, <<>>, <<>>, NoPan,
                MaxWorkspaceActs, TRUE)
  \/ LoadedOver(UsedStorage, <<AppSubscription>>, <<>>, <<>>, NoPan,
                MaxWorkspaceActs, TRUE)

\* Workspaces are created, imported and deleted.
NextWorkspaces ==
  \/ CreateWorkspace
  \/ ImportWorkspace
  \/ DeleteWorkspace
  \/ DeleteWorkspaceClick
  \/ StorageOk

SpecWorkspaces == InitWorkspaces /\ [][NextWorkspaces]_vars

\* ------------------------------------------------- persistence: C2, C3, C4
\* Nothing is in progress: no switch, no armed timer, no storage call.
Quiescent == NoSwitchInProgress /\ timers = {} /\ inflight = <<>>

\* C2: no edit is lost across a workspace switch. Once the switch has
\* completed and every pending save timer has fired (storage answering every
\* call), the persisted record of every workspace that was mutated equals its
\* in-memory state after its last mutation, mutations made while
\* switchWorkspace was suspended included.
C2_NoEditLost ==
  Quiescent =>
    \A id \in WorkspaceIds : lastMem[id] # NULL => storage.ws[id] = lastMem[id]

\* The execution p of switchWorkspace has issued the read of the incoming
\* workspace, or is further on.
ReadIssued(p) ==
  sw[p].pc \in {"w_load", "w_mksave", "w_mklist", "w_mklistset", "w_setcur"}

\* The timer that was pending when p was called is not pending.
TimerCancelled(p) == \A t \in timers : t.h # sw[p].t0

\* No write issued by p's saveNow is waiting for the backend's answer.
FlushNotInFlight(p) ==
  \A i \in 1..Len(inflight) :
    ~(inflight[i].proc = p /\ inflight[i].then = "saved")

\* A step that replaces the current workspace by another one.
CurrentChanges ==
  /\ currentWorkspace # NULL
  /\ currentWorkspace' # NULL
  /\ currentWorkspace'.id # currentWorkspace.id

\* C3 as stated: in every execution of switchWorkspace with a workspace
\* loaded, the pending save timer is cancelled and the write of the outgoing
\* workspace is acknowledged by the backend before the read of the incoming
\* workspace is issued and before currentWorkspace changes.
C3_FlushAcknowledged ==
  \A p \in SwitchProcs :
    (ReadIssued(p) /\ sw[p].flush # "none") =>
      TimerCancelled(p) /\ FlushNotInFlight(p) /\ sw[p].flush = "ack"

FlushSettled(p) ==
  /\ TimerCancelled(p)
  /\ FlushNotInFlight(p)
  /\ sw[p].flush \in {"ack", "rejected", "unavailable"}

\* C3 amended: in every execution of switchWorkspace with a workspace loaded,
\* the pending save timer is cancelled and the write of the outgoing workspace
\* has settled (acknowledged, or rejected and logged, or not issued because
\* the storage API is gone) before the read of the incoming workspace is
\* issued and before currentWorkspace changes.
C3_FlushThenLoad ==
  /\ [](\A p \in SwitchProcs :
          (ReadIssued(p) /\ sw[p].flush # "none") => FlushSettled(p))
  /\ [][CurrentChanges =>
          \A p \in SwitchProcs :
            sw[p].pc # "idle" => TimerCancelled(p) /\ FlushNotInFlight(p)']_vars

\* C3 witness: a timer was pending when switchWorkspace was called, it is
\* cancelled, the write was acknowledged and the read is in flight.
C3_Witness ==
  \E p \in SwitchProcs :
    /\ sw[p].pc = "w_load"
    /\ sw[p].t0 # 0
    /\ sw[p].flush = "ack"
    /\ \E i \in 1..Len(inflight) : inflight[i].kind = "get" /\ inflight[i].proc = p

\* The debounce timer runs (no Store call is made in the step).
TimerRuns == timers # {} /\ timers' = {} /\ UNCHANGED <<sw, calls>>

\* The step issues one write: of the workspace the burst mutated, with the
\* state after the last call of the burst.
BurstWritten ==
  \A t \in timers :
    /\ Len(inflight') = Len(inflight) + 1
    /\ LET op == inflight'[Len(inflight')]
       IN op.kind = "set" /\ op.key = WsKey(t.for) /\ op.val = lastMem[t.for]

\* C4: debounced persistence. At most one save timer is pending at any time,
\* and a burst of mutating calls causes exactly one write, issued when the
\* timer armed by the last call runs, of the workspace the calls mutated and
\* containing its state after all of them.
C4_DebouncedPersistence ==
  /\ [](Cardinality(timers) <= 1)
  /\ [][TimerRuns => BurstWritten]_vars

\* --------------------------------------------------- history: C1, C5, C6, C7
\* C1: the undo/redo inverse law. After push(P) and any Store mutations M,
\* undo(current items) returns a snapshot equal to P, and a redo made right
\* after returns one equal to the items after M; restoreState makes
\* Store.getAllItems() equal to each snapshot it is given.
C1_UndoRedoInverse ==
  /\ law.phase \in {"undone", "redone"} =>
       law.undoRet = Some(law.P) /\ law.afterUndo = law.P
  /\ law.phase = "redone" =>
       law.redoRet = Some(law.post) /\ law.afterRedo = law.post

\* C1 witness: push(P), mutations that changed the items, undo, then redo.
C1_Witness ==
  /\ law.phase = "redone"
  /\ law.P # law.post
  /\ getAllItems(World) = law.post

\* The n most recent elements of s, all of s if it has fewer.
MostRecent(s, n) == SubSeq(s, MathMax(1, Len(s) - n + 1), Len(s))

\* C5: the history depth bound. After any sequence of pushes undoStack holds
\* at most 42 snapshots; after more than 42 consecutive pushes it holds the
\* 42 most recently pushed ones, in push order.
C5_DepthBound ==
  /\ Len(undoStack) <= MAX_HISTORY
  /\ undoStack = MostRecent(pushLog, MAX_HISTORY)

\* C5 witness: more than 42 pushes were made, the oldest were evicted.
C5_Witness ==
  /\ Len(pushLog) > MAX_HISTORY + 1
  /\ Len(undoStack) = MAX_HISTORY
  /\ undoStack[1] = pushLog[Len(pushLog) - MAX_HISTORY + 1]
  /\ undoStack[1] # pushLog[1]

\* C6: redo invalidation. Every push leaves redoStack empty; after an undo
\* followed by a push, canRedo() is false, redo returns null and changes
\* neither stack.
C6_RedoInvalidation ==
  /\ last.op = "push" => redoStack = <<>> /\ ~canRedo(World)
  /\ (last.op = "redo" /\ last.prev = "push" /\ last.prev2 = "undo") =>
       /\ last.ret = NULL
       /\ undoStack = last.before.u
       /\ redoStack = last.before.r

\* C6 witness: an undo that filled the redo stack, a push that found it
\* filled, then a redo.
C6_Witness ==
  /\ last.op = "redo"
  /\ last.prev = "push"
  /\ last.prev2 = "undo"
  /\ Len(last.prevBefore.r) > 0

DiscreteActions ==
  {"addNote", "addChecklist", "addContainer", "deleteItem", "addChecklistItem",
   "deleteChecklistItem", "toggleChecklistItem", "toggleChecklistItemNesting",
   "cycleContainerColor", "startDrag", "startResize"}

\* C7: push before mutation. Every discrete user action calls
\* HistoryManager.push before it mutates the items, and the snapshot pushed
\* equals the items as they were when the action began.
C7_PushBeforeMutation ==
  act.name \in DiscreteActions =>
    Len(act.pushed) >= 1 /\ act.pushed[1] = act.pre

\* C7 witness: a checkbox was toggled, which changed the items, and the
\* snapshot on top of the undo stack is the state before.
C7_Witness ==
  /\ act.name = "toggleChecklistItem"
  /\ Len(act.pushed) = 1
  /\ getAllItems(World) # act.pre
  /\ undoStack[Len(undoStack)] = act.pre

\* ------------------------------------------------- geometry: C8, C9, C10
InCanvas(item) ==
  /\ item.position.x >= 0
  /\ item.position.y >= 0
  /\ item.position.x + item.size.width <= canvasSize
  /\ item.position.y + item.size.height <= canvasSize

\* C8: the canvas clamp. After a drag or a resize completes, every item the
\* gesture committed lies within the canvas: position.x >= 0, position.y >= 0,
\* position.x + size.width <= 5000 and position.y + size.height <= 5000.
C8_CanvasClamp ==
  \A i \in 1..Len(committed.items) : InCanvas(committed.items[i])

OnGrid(item) ==
  /\ item.position.x % gridSize = 0
  /\ item.position.y % gridSize = 0
  /\ item.size.width % gridSize = 0
  /\ item.size.height % gridSize = 0

\* C9: grid quantization. After a drag or a resize completes, position.x,
\* position.y, size.width and size.height of every item the gesture committed
\* are multiples of the grid step 20.
C9_GridQuantization ==
  \A i \in 1..Len(committed.items) : OnGrid(committed.items[i])

CentreWithin(item, c) ==
  /\ item.type # "container"
  /\ 2 * item.position.x + item.size.width >= 2 * c.position.x
  /\ 2 * item.position.x + item.size.width <= 2 * (c.position.x + c.size.width)
  /\ 2 * item.position.y + item.size.height >= 2 * c.position.y
  /\ 2 * item.position.y + item.size.height <= 2 * (c.position.y + c.size.height)

ClampToCanvas(v, extent) == MathMax(0, MathMin(v, canvasSize - extent))

\* The drag that completed last was of a container: every item of the group
\* fixed at drag start is at the container's final position plus its offset
\* at drag start, clamped to the canvas, and every other item is where it was.
GroupCommitted ==
  LET before == committed.before
      after == committed.after
      d == IndexOfId(before, committed.id)
  IN /\ Len(after) = Len(before)
     /\ \A i \in 1..Len(before) :
          IF before[d].type = "container" /\ CentreWithin(before[i], before[d])
          THEN after[i].position =
                 [x |-> ClampToCanvas(after[d].position.x + before[i].position.x
                                        - before[d].position.x,
                                      before[i].size.width),
                  y |-> ClampToCanvas(after[d].position.y + before[i].position.y
                                        - before[d].position.y,
                                      before[i].size.height)]
          ELSE i # d => after[i].position = before[i].position

\* The drag that completed last is the example: a container at
\* (100, 100, 300, 200) dragged by (+50, +50).
ExampleDrag ==
  /\ committed.kind = "drag"
  /\ LET c == committed.before[IndexOfId(committed.before, committed.id)]
     IN /\ c.type = "container"
        /\ c.position = [x |-> 100, y |-> 100]
        /\ c.size = [width |-> 300, height |-> 200]
  /\ committed.requested = Some([x |-> 150, y |-> 150])

\* Every item of the example whose centre is at (150, 150) has moved by
\* (dx, dy).
ExampleNoteMovedBy(dx, dy) ==
  \A i \in 1..Len(committed.before) :
    LET item == committed.before[i]
    IN (/\ item.type = "note"
        /\ 2 * item.position.x + item.size.width = 300
        /\ 2 * item.position.y + item.size.height = 300)
       => committed.after[i].position =
            [x |-> item.position.x + dx, y |-> item.position.y + dy]

\* C11 as stated: container group-drag. The group is the non-container items
\* whose centre is within the container at drag start; at pointer-up each is
\* committed at the container's final position plus its offset, clamped
\* independently, and every other item keeps its position; a note centred at
\* (150, 150) in a container at (100, 100, 300, 200) dragged by (+50, +50)
\* moves by exactly (+50, +50).
C11_GroupDragExact ==
  committed.kind = "drag" =>
    GroupCommitted /\ (ExampleDrag => ExampleNoteMovedBy(50, 50))

\* C11 amended: as stated, but the note of the example moves with the
\* container, whose position is rounded to the grid: by (+60, +60).
C11_GroupDrag ==
  committed.kind = "drag" =>
    GroupCommitted /\ (ExampleDrag => ExampleNoteMovedBy(60, 60))

\* C11 witness: the example was dragged; the note in the container moved
\* with it and the note beside it stayed.
C11_Witness ==
  /\ ExampleDrag
  /\ committed.after[2].position = [x |-> 100, y |-> 160]
  /\ committed.after[3].position = committed.before[3].position
  /\ Len(committed.items) = 2

\* ------------------------------------------- export and import: C12, C13, C14
\* The task that ran last returned from fn.
Returned(fn) ==
  /\ vars' # vars
  /\ emitted' # <<>>
  /\ emitted'[Len(emitted')].e = fn

\* Two objects hold the same members with the same values, the ids aside.
SameButId(a, b) ==
  /\ DOMAIN a = DOMAIN b
  /\ \A f \in (DOMAIN a) \ {"id", "items"} : a[f] = b[f]

\* Two items are equal in every field, their ids and those of their
\* checklist entries aside. A member whose value is undefined reads as a
\* member that is absent.
SameItem(a, b) ==
  /\ SameButId(Written(<<a>>)[1], Written(<<b>>)[1])
  /\ "items" \in (DOMAIN a) \ (IF "undefined" \in DOMAIN a THEN a.undefined ELSE {}) =>
       /\ Len(a.items) = Len(b.items)
       /\ \A j \in 1..Len(a.items) : SameButId(a.items[j], b.items[j])

SameItems(as, bs) ==
  /\ Len(as) = Len(bs)
  /\ \A i \in 1..Len(as) : SameItem(as[i], bs[i])

\* The import that returns is one of the file the last export wrote.
RoundTrip ==
  /\ Returned("import")
  /\ exported # NULL
  /\ job'.entries = <<exported.json.data.workspace>>

\* C12: export/import round trip. When importWorkspace returns from importing
\* the file exportWorkspace wrote for a workspace, it returns a workspace
\* under an id that neither had a record nor was in the list when it was
\* called; the record stored under that id and the list with the id appended
\* are in storage; the items of the record and of the workspace returned are
\* those of the exported workspace, in order, equal in every field but the
\* ids of the items and of the checklist entries; and the record of the
\* exported workspace and the current workspace are as they were at the call.
C12_RoundTrip ==
  [][RoundTrip =>
       LET new == job'.result
           pre == job'.pre
           orig == exported.of
       IN /\ new # NULL
          /\ pre.stor.ws[new.id] = NULL
          /\ ~SeqContains(pre.stor.list.v, new.id)
          /\ storage'.ws[new.id] # NULL
          /\ storage'.ws[new.id].id = new.id
          /\ storage'.list.v = Append(pre.stor.list.v, new.id)
          /\ SameItems(storage'.ws[new.id].items, orig.items)
          /\ SameItems(new.items, orig.items)
          /\ storage'.ws[orig.id] = pre.stor.ws[orig.id]
          /\ currentWorkspace' = pre.cw]_vars

\* An import of the exported workspace of two items has returned.
C12_Witness ==
  /\ job.kind = "import" /\ job.pc = "idle" /\ exported # NULL
  /\ job.entries = <<exported.json.data.workspace>>
  /\ job.result # NULL
  /\ Len(exported.of.items) = 2
  /\ storage.ws[job.result.id] # NULL
  /\ Len(storage.ws[job.result.id].items) = 2
  /\ emitted # <<>> /\ emitted[Len(emitted)].e = "import"

\* An entry of a file that has a name and whose items, if any, are an array.
ValidData(wsData) ==
  wsData.name # "" /\ ("items" \in DOMAIN wsData => wsData.items.t = "array")

\* C13: bulk import independence. When importAllWorkspaces returns from a
\* file with a workspaces array, the list it returns holds, in the order of
\* the entries, a workspace for every valid entry of the file, whatever the
\* other entries are; each holds the items of its entry, its record is
\* stored and its id is in the workspace list.
C13_BulkIndependence ==
  [][Returned("importAll") /\ job'.entries # <<>> =>
       LET valid == SelectSeq(job'.entries, ValidData)
           imported == job'.result.v
       IN /\ Len(imported) >= Len(valid)
          /\ \A k \in 1..Len(valid) : \E j \in k..Len(imported) :
               /\ SameItems(imported[j].items, ItemsOrEmpty(valid[k]))
               /\ storage'.ws[imported[j].id] # NULL
               /\ SameItems(storage'.ws[imported[j].id].items,
                            ItemsOrEmpty(valid[k]))
               /\ SeqContains(storage'.list.v, imported[j].id)]_vars

\* The input of the import that returns is one importWorkspace rejects: no
\* JSON, no workspace, no name, or items that have no map.
Rejected(entries) ==
  entries = <<>> \/ entries[1].name = "" \/ ~HasMap(entries[1])

\* C14: import validation is all-or-nothing. When importWorkspace returns
\* from an input that is not JSON, lacks workspace or its name, or whose
\* items cannot be mapped, it returns null; no storage call was issued,
\* storage and with it the workspace list are as they were at the call, and
\* the task emitted no event.
C14_AllOrNothing ==
  [][Returned("import") /\ Rejected(job'.entries) =>
       /\ job'.result = NULL
       /\ inflight' = inflight
       /\ storage' = job'.pre.stor
       /\ storage' = storage
       /\ currentWorkspace' = currentWorkspace
       /\ Len(emitted') = 1]_vars

\* An import of a file whose items are a string has returned.
C14_Witness ==
  /\ job.kind = "import" /\ job.pc = "idle" /\ job.result = NULL
  /\ Len(job.entries) = 1
  /\ job.entries[1].name # ""
  /\ ~HasMap(job.entries[1])
  /\ emitted # <<>> /\ emitted[Len(emitted)].e = "import"

\* ------------------------------------------------- deleting a workspace: C15
\* C15: workspace deletion cascades and sticks. Once the app has deleted the
\* current workspace W (Store.deleteWorkspace returned the workspace to
\* switch to), the switch has ended, every timer has run and every storage
\* call has settled, storage holds no workspace record and no history record
\* of W, and W is not in the workspace list.
C15_DeletionSticks ==
  job.kind = "delete" /\ job.result = [del |-> "deleted"] /\ Quiescent =>
    /\ storage.ws[job.id] = NULL
    /\ storage.hist[job.id] = NULL
    /\ ~SeqContains(storage.list.v, job.id)

\* ------------------------------------------------------ selection: C16, C17
\* The ids of the items whose rectangle and the box have a point in common.
Touching(box) ==
  {currentWorkspace.items[i].id :
     i \in {j \in 1..Len(currentWorkspace.items) :
        LET item == currentWorkspace.items[j]
        IN /\ box.left <= item.position.x + item.size.width
           /\ item.position.x <= box.left + box.width
           /\ box.top <= item.position.y + item.size.height
           /\ item.position.y <= box.top + box.height}}

\* A rubber band that is 5 px wide or high or more is finalized.
BandFinalized ==
  /\ isSelecting /\ ~isSelecting'
  /\ selectionBox # NULL
  /\ selectionBox.width >= 5 \/ selectionBox.height >= 5

C17_ShiftClickToggle ==
  [][gesture = NULL /\ gesture' # NULL /\ gesture'.kind = "drag"
     /\ act'.name = "startDrag" /\ act'.shiftKey =>
       selectedItems' = IF gesture'.itemId \in selectedItems
                        THEN selectedItems \ {gesture'.itemId}
                        ELSE selectedItems \cup {gesture'.itemId}]_vars

\* ------------------------------------------------- error handling: C18, C19
\* The call returned value and did nothing else: what the task emitted is
\* the returned value alone, no timer was armed or cleared, no storage call
\* was issued and the workspace in memory is the same.
Refused(w, fn, value) ==
  /\ w.ev = <<[e |-> fn, d |-> value]>>
  /\ w.cw = currentWorkspace
  /\ w.timers = timers /\ w.st = saveTimeout /\ w.nh = timerSeq
  /\ w.q = inflight

\* The task that ran last is a call of fn that returned value.
RefusedStep(fn, value) ==
  Returned(fn) /\ emitted'[Len(emitted')].d = value =>
    /\ Len(emitted') = 1
    /\ currentWorkspace' = currentWorkspace
    /\ timers' = timers /\ saveTimeout' = saveTimeout
    /\ inflight' = inflight

\* C18: programmer-error guards. In every state, createItem with no
\* workspace loaded returns null, updateItem with no workspace loaded or
\* with the id of no item returns null, and deleteItem in the same cases
\* returns false; the call emits no event, schedules no save and leaves the
\* items as they are. And every call that was made and returned null or
\* false did so.
C18_Guards ==
  /\ [](/\ currentWorkspace = NULL =>
            Refused(createItem(World, "note", [title |-> ""]), "createItem", NULL)
        /\ \A id \in ItemIds \cup {UnknownId} :
             currentWorkspace = NULL \/ id \notin ItemIds =>
               /\ Refused(updateItem(World, id, [title |-> "t"]),
                          "updateItem", NULL)
               /\ Refused(deleteItem(World, id), "deleteItem", [ok |-> FALSE]))
  /\ [][/\ RefusedStep("createItem", NULL)
        /\ RefusedStep("updateItem", NULL)
        /\ RefusedStep("deleteItem", [ok |-> FALSE])]_vars

\* updateItem was called on a loaded workspace with the id of no item.
C18_Witness ==
  /\ currentWorkspace # NULL
  /\ Len(currentWorkspace.items) > 0
  /\ emitted = <<[e |-> "updateItem", d |-> NULL]>>

\* How many times the task that ran last invoked the subscription l.
Invocations(l) == Cardinality({i \in 1..Len(invoked') : invoked'[i] = l})

\* C19: subscriber isolation. When createItem runs on a loaded workspace,
\* every callback subscribed to item:created is invoked exactly once and no
\* other callback is, whichever of them throw; createItem stores the item,
\* schedules the save and returns the item.
C19_SubscriberIsolation ==
  [][Returned("createItem") /\ currentWorkspace # NULL =>
       LET item == emitted'[Len(emitted')].d
       IN /\ \A i \in 1..Len(listeners) :
               Invocations(listeners[i]) =
                 IF listeners[i].event = "item:created" THEN 1 ELSE 0
          /\ Len(invoked') =
               Cardinality({i \in 1..Len(listeners) :
                              listeners[i].event = "item:created"})
          /\ item # NULL
          /\ currentWorkspace'.items = Append(currentWorkspace.items, item)
          /\ saveTimeout' # 0
          /\ \E t \in timers' : t.h = saveTimeout'
          /\ emitted' = <<[e |-> "item:created", d |-> item.id],
                          [e |-> "createItem", d |-> item]>>]_vars

\* createItem ran with a callback that throws subscribed before one that
\* returns, and both were invoked.
C19_Witness ==
  /\ Len(emitted) = 2 /\ emitted[2].e = "createItem"
  /\ Len(invoked) = 2
  /\ invoked[1].callback.throws /\ ~invoked[2].callback.throws

\* ----------------------------------------------------- auto-creation: C20
\* The read of execution p settles and finds no record of the workspace.
NotFound(p) ==
  /\ sw[p].pc = "w_load" /\ sw'[p].pc # "w_load"
  /\ storage.ws[sw[p].id] = NULL

\* The execution goes on with an empty workspace of the id it was called
\* with, whose write it has issued.
Creates(p) ==
  /\ sw'[p].created
  /\ sw'[p].ws # NULL
  /\ sw'[p].ws.id = sw[p].id /\ sw'[p].ws.items = <<>>
  /\ inflight' # <<>>
  /\ inflight'[Len(inflight')].kind = "set"
  /\ inflight'[Len(inflight')].key = WsKey(sw[p].id)

\* An execution that created its workspace returns: true, the workspace is
\* current and stored, and workspace:switched was emitted for it.
ReturnsCreated(p) ==
  sw[p].created /\ sw[p].pc # "idle" /\ sw'[p].pc = "idle" =>
    /\ \E i \in 1..Len(emitted') :
         emitted'[i].e = "switchWorkspace" /\ emitted'[i].d.v = "true"
    /\ \E i \in 1..Len(emitted') :
         emitted'[i].e = "workspace:switched" /\ emitted'[i].d = sw[p].id
    /\ currentWorkspace' # NULL /\ currentWorkspace'.id = sw[p].id
    /\ storage'.ws[sw[p].id] # NULL
    /\ storage'.current = sw[p].id

AutoCreate(ids) ==
  \A p \in SwitchProcs :
    /\ NotFound(p) /\ sw[p].id \in ids => Creates(p)
    /\ ReturnsCreated(p)

getWorkspaceList ==
  IF storage.list = NULL THEN <<DEFAULT_WORKSPACE_ID>> ELSE storage.list.v

\* getCurrentWorkspace (store.js:916-918) returns a workspace of the list.
CurrentInList ==
  /\ currentWorkspace # NULL
  /\ SeqContains(getWorkspaceList, currentWorkspace.id)

\* C21: exactly one current workspace. Once Store.init has completed, in
\* every reachable state getCurrentWorkspace() is non-null and refers to a
\* workspace that is in the workspace list.
C21_OneCurrent == isInitialized => CurrentInList

\* ------------------------------------------------------ quota warning: C22
\* C22: one-time quota warning. The storage soft-limit warning is shown at
\* most once per session, for any number and any interleaving of saves that
\* complete while storage usage is above the limit.
C22_WarnOnce == alerts <= 1

\* ------------------------------------------------ checklist scenario: C23
\* One checklist with the entries A (not completed), B (completed) and
\* C (not completed), in that order.
ScenarioDone(items) ==
  /\ Len(items) = 1
  /\ items[1].type = "checklist"
  /\ Len(items[1].items) = 3
  /\ \A n \in 1..3 : /\ items[1].items[n].text = EntryTexts[n]
                     /\ items[1].items[n].completed = (n = 2)

\* One checklist with zero entries.
EmptyChecklist(items) ==
  Len(items) = 1 /\ items[1].type = "checklist" /\ items[1].items = <<>>

\* The scenario was played and was followed by n undos and nothing else.
Undone(n) == Len(redoStack) = n /\ ScenarioDone(redoStack[1])

\* The commands up to the toggle give the three entries.
ScenarioPlayed ==
  [][act'.name = "toggleChecklistItem" =>
       ScenarioDone(currentWorkspace'.items)]_vars

\* C23 as stated: after the scenario getAllItems() returns the checklist
\* with A, B (completed) and C, and five consecutive undo calls return to
\* one checklist with zero entries.
C23_FiveUndos ==
  /\ ScenarioPlayed
  /\ [](Undone(5) => EmptyChecklist(currentWorkspace.items))

\* C23: the scenario gives the checklist with A, B (completed) and C; when
\* the debounce timer of the text edits has not run, so that the undo stack
\* holds the five snapshots of the five commands, four consecutive undo
\* calls return to one checklist with zero entries and the fifth returns
\* to the state before the checklist was created, with no items.
C23_FourUndos ==
  /\ ScenarioPlayed
  /\ [](Undone(4) /\ Len(undoStack) = 1 =>
         EmptyChecklist(currentWorkspace.items))
  /\ [](Undone(5) /\ Len(undoStack) = 0 => currentWorkspace.items = <<>>)

\* The scenario was played, no debounce timer ran, and four undos were made.
C23_Witness ==
  /\ Undone(4) /\ Len(undoStack) = 1
  /\ EmptyChecklist(currentWorkspace.items)

\* ------------------------------------------------ touch intersection: C24
\* Two rectangles of positive size that lie side by side, or one above the
\* other, along a stretch of an edge.
ShareOneEdge(A, B) ==
  /\ A.width > 0 /\ A.height > 0 /\ B.width > 0 /\ B.height > 0
  /\ \/ /\ A.left + A.width = B.left \/ B.left + B.width = A.left
        /\ A.top < B.top + B.height /\ B.top < A.top + A.height
     \/ /\ A.top + A.height = B.top \/ B.top + B.height = A.top
        /\ A.left < B.left + B.width /\ B.left < A.left + A.width

\* C24: touch intersection. checkIntersection(A,B) = checkIntersection(B,A)
\* for all rectangles with non-negative width and height, and two
\* rectangles that share exactly one edge are reported as intersecting.
C24_TouchIntersection ==
  input.fn = "checkIntersection" /\ output # <<>> =>
    /\ output[1] = checkIntersection(input.b, input.a)
    /\ ShareOneEdge(input.a, input.b) => output[1]

\* checkIntersection was applied to two rectangles that share an edge.
C24_Witness ==
  /\ input.fn = "checkIntersection" /\ output = <<TRUE>>
  /\ ShareOneEdge(input.a, input.b)

\* ------------------------------------------------------------ grid snap: C25
\* C25: grid snap idempotence. snap(snap(x)) = snap(x) for every integer
\* coordinate x, and snap(x) = x whenever x is a multiple of the grid size.
C25_SnapIdempotent ==
  input.fn = "snap" =>
    /\ Len(output) = 2 => output[2] = output[1]
    /\ Len(output) >= 1 /\ input.x % gridSize = 0 => output[1] = input.x

\* A coordinate off the grid was snapped, and snapped again.
C25_Witness ==
  /\ input.fn = "snap" /\ Len(output) = 2
  /\ input.x % gridSize # 0 /\ output[1] # input.x

\* -------------------------------------------------------- item ids: C26
\* The ids of the items, in the order of the items.
IdsOf(items) == [i \in 1..Len(items) |-> items[i].id]

UniqueIds(items) ==
  \A i, j \in 1..Len(items) : i # j => items[i].id # items[j].id

\* C26: item ids are unique and stable. After any sequence of createItem
\* (with any data), updateItem (with any changes), deleteItem, undo and
\* redo, no two items of the current workspace share an id, and updateItem
\* leaves the id of every item as it was.
C26_IdsUniqueStable ==
  /\ [](currentWorkspace # NULL => UniqueIds(currentWorkspace.items))
  /\ [][Returned("updateItem") =>
          IdsOf(currentWorkspace'.items) = IdsOf(currentWorkspace.items)]_vars

\* ---------------------------------------------------- nesting cap: C27
\* The depth at which an entry is shown: `item.nested || 0`
\* (app.js:1830, 2340).
Depth(entry) == IF "nested" \in DOMAIN entry THEN entry.nested ELSE 0

\* The entries of all checklists, as <<checklist, entry>> positions.
EntriesOf(items) ==
  UNION {{<<i, e>> : e \in 1..Len(items[i].items)} :
           i \in {j \in 1..Len(items) : items[j].type = "checklist"}}

\* Tab or Shift+Tab was handled: the items before and after it hold the
\* same entries.
NestingStep ==
  /\ act'.name = "toggleChecklistItemNesting"
  /\ act'.pre = currentWorkspace.items
  /\ EntriesOf(currentWorkspace'.items) = EntriesOf(currentWorkspace.items)

\* C27: nesting cap. After any sequence of indent (Tab) and outdent
\* (Shift+Tab) commands every checklist entry's nested value is 0, 1 or 2;
\* indenting an entry at depth 2 and outdenting an entry at depth 0 leave
\* its depth unchanged.
C27_NestingCap ==
  /\ [](\A p \in EntriesOf(currentWorkspace.items) :
          Depth(currentWorkspace.items[p[1]].items[p[2]]) \in {0, 1, 2})
  /\ [][NestingStep =>
          \A p \in EntriesOf(currentWorkspace.items) :
            LET before == Depth(currentWorkspace.items[p[1]].items[p[2]])
                after == Depth(currentWorkspace'.items[p[1]].items[p[2]])
            IN IF act'.shiftKey
               THEN after \in {before, before - 1} /\ (before = 0 => after = 0)
               ELSE after \in {before, before + 1} /\ (before = 2 => after = 2)
       ]_vars

\* Tab was pressed in an entry at depth 2, and nothing changed.
C27_Witness ==
  /\ act.name = "toggleChecklistItemNesting" /\ ~act.shiftKey
  /\ act.pre = currentWorkspace.items
  /\ Depth(currentWorkspace.items[1].items[1]) = 2
  /\ Len(undoStack) = 3

\* ------------------------------------------- history per workspace: C28
\* push was called in this step: it takes the items of the Store's current
\* workspace and records them in the stacks of the History Manager's one.
Pushed == Len(pushLog') > Len(pushLog)

\* C28: history is per workspace. For any interleaving of workspace switches
\* with history pushes (immediate or debounced) no push is recorded against
\* a workspace other than the one whose items it captured: when push is
\* called, the workspace of the History Manager is the current workspace of
\* the Store.
C28_HistoryPerWorkspace ==
  [][Pushed => /\ currentWorkspace # NULL
               /\ currentWorkspaceId = currentWorkspace.id]_vars

\* ------------------------------------------ debounced text edits: C29
\* The timer of pushHistoryDebounced runs in this step: the burst is over.
BurstEnds == historyDebounceTimer /\ ~historyDebounceTimer'

\* A burst adds exactly one snapshot: undoStack grows by one when the timer
\* runs and at no other step of the typing.
OneSnapshotPerBurst ==
  [][/\ BurstEnds => Len(undoStack') = Len(undoStack) + 1
     /\ Len(undoStack') > Len(undoStack) => BurstEnds]_vars

\* The first burst of a session: nothing has been pushed, so nothing could be
\* undone, and the items before the burst are those of BeforeTyping.
FirstBurstEnds == BurstEnds /\ pushLog = <<>>

\* The first burst has ended and has been undone, by the one undo there is
\* to make.
FirstBurstUndone ==
  Len(pushLog) = 1 /\ undoStack = <<>> /\ Len(redoStack) = 1

\* C29: debounced text-edit history. A burst of title, content or entry
\* text edits adds exactly one snapshot to undoStack; that snapshot holds
\* the items as they were before the burst, and one undo after the timer
\* has run restores the texts of before the burst.
C29_DebouncedTextHistory ==
  /\ OneSnapshotPerBurst
  /\ [][FirstBurstEnds => undoStack' = <<BeforeTyping>>]_vars
  /\ [](FirstBurstUndone => currentWorkspace.items = BeforeTyping)

\* ------------------------------------------- restore suppression: C30
\* pushHistory was called in this step, by addNote.
PushCalled == act'.name = "addNote" /\ act' # act

\* What is persisted, or about to be, for the history of the workspaces.
HistoryWrites(sent) ==
  {i \in 1..Len(sent) : sent[i].kind = "set" /\ sent[i].key.k = "history"}

\* While the flag is true a push changes neither stack nor what is persisted.
PushSuppressed ==
  [][isRestoring /\ PushCalled =>
       /\ undoStack' = undoStack
       /\ redoStack' = redoStack
       /\ storage'.hist = storage.hist
       /\ HistoryWrites(inflight') = {}]_vars

\* An undo or a redo moves one snapshot from a stack to the other and calls
\* no push.
RestoreAddsNoSnapshot ==
  [][act'.name \in {"undo", "redo"} /\ act' # act =>
       /\ pushLog' = pushLog
       /\ Len(undoStack') + Len(redoStack') = Len(undoStack) + Len(redoStack)]_vars

\* A push was called while the flag was true, over a history that is not
\* empty.
PushWhileRestoring ==
  isRestoring /\ act.name = "addNote" /\ undoStack # <<>>

\* C30: restore suppression. While the restoring flag is true, push changes
\* neither undoStack, redoStack nor the persisted history; an undo or redo
\* never adds a snapshot by itself; and the flag is false whenever no
\* restore is in progress, that is between any two handlers, restoreState
\* being one synchronous call.
C30_RestoreSuppression ==
  /\ PushSuppressed
  /\ RestoreAddsNoSnapshot
  /\ []~isRestoring

\* ------------------------------------------- commit on pointer-up: C31
\* The pointer moved in this step, a button held on an item.
PointerMoved == gesture # NULL /\ gesture' # NULL /\ gesture' # gesture

\* The button was released in this step.
PointerUp == gesture # NULL /\ gesture' = NULL

\* The ids of the items the gesture has moved or resized: the item under the
\* pointer and, for a container, the items dragged with it.
Pending(g) ==
  IF g.kind = "drag"
  THEN (IF g.pendingPosition # NULL THEN <<g.itemId>> ELSE <<>>) \o
       [i \in 1..Len(SelectSeq(g.groupedItems,
                               LAMBDA grouped : grouped.pendingPosition # NULL))
          |-> SelectSeq(g.groupedItems,
                        LAMBDA grouped : grouped.pendingPosition # NULL)[i].id]
  ELSE IF g.pendingSize # NULL THEN <<g.itemId>> ELSE <<>>

\* The calls of updateItem the task made, as the ids of the items returned.
UpdateItemCalls(events) ==
  LET calls1 == SelectSeq(events, LAMBDA ev : ev.e = "updateItem")
  IN [i \in 1..Len(calls1) |-> calls1[i].d.id]

\* C31: commit only on pointer-up. Between drag-start or resize-start and
\* pointer-up a pointer move mutates nothing in the Store, emits no event
\* and schedules no save; at pointer-up the Store receives exactly one
\* updateItem per moved or resized item, and none if the pointer never moved.
C31_CommitOnPointerUp ==
  [][/\ PointerMoved =>
         /\ currentWorkspace' = currentWorkspace
         /\ emitted' = <<>>
         /\ timers' = timers /\ saveTimeout' = saveTimeout
         /\ inflight' = inflight /\ storage' = storage
     /\ PointerUp =>
         /\ UpdateItemCalls(emitted') = Pending(gesture)
         /\ Pending(gesture) = <<>> =>
              emitted' = <<>> /\ currentWorkspace' = currentWorkspace]_vars

\* C31 witness: a container was dragged with an item inside it and the
\* button released; the Store was told of both.
C31_Witness ==
  /\ gesture = NULL
  /\ act.name = "onMouseUp"
  /\ Len(UpdateItemCalls(emitted)) >= 2

\* ------------------------------------------ history bound on load: C32
\* The read of loadHistory settles in this step, and loadHistory returns.
LoadHistoryReturns ==
  /\ inflight # <<>>
  /\ Head(inflight).proc = "loadHistory"
  /\ Len(inflight') < Len(inflight)

\* The stacks persisted for workspace id, empty stacks if there are none.
PersistedStacks(id) ==
  IF storage.hist[id] # NULL
  THEN [u |-> storage.hist[id].undoStack, r |-> storage.hist[id].redoStack]
  ELSE [u |-> <<>>, r |-> <<>>]

\* C32: history binding after load. After loadHistory(W) returns, whether
\* the read succeeded, found nothing or failed, the History Manager is bound
\* to W: currentWorkspaceId is W, under which every later push, undo or redo
\* is persisted, and the stacks are those persisted for W, or empty.
C32_BoundAfterLoad ==
  [][LoadHistoryReturns =>
       LET W == Head(inflight).key.id
       IN /\ currentWorkspaceId' = W
          /\ \/ [u |-> undoStack', r |-> redoStack'] = PersistedStacks(W)
             \/ undoStack' = <<>> /\ redoStack' = <<>>]_vars

\* ------------------------------------------- combined history bound: C33
\* The snapshots in both stacks.
Combined == Len(undoStack) + Len(redoStack)

\* C33: combined history bound. In every state reached from empty stacks by
\* push, undo and redo the two stacks hold at most MAX_HISTORY snapshots
\* together; an undo and a redo leave the combined size as it was, so a redo
\* never grows undoStack beyond MAX_HISTORY.
C33_CombinedBound ==
  /\ [](Combined <= MAX_HISTORY)
  /\ [][act'.name \in {"undo", "redo"} /\ act' # act => Combined' = Combined]_vars

\* C33 witness: a redo has filled undoStack to MAX_HISTORY.
C33_Witness ==
  /\ act.name = "redo"
  /\ last.op = "redo" /\ last.ret # NULL
  /\ Len(undoStack) = MAX_HISTORY

\* ------------------------------------------------ selection validity: C34
\* C34: selection validity. In every reachable state, a workspace switch or
\* a restore in progress or not, each id in selectedItems is the id of an
\* item that Store.getAllItems() returns for the current workspace.
C34_SelectionValid == selectedItems \subseteq ItemIds

\* ------------------------------------------------------ multi-delete: C35
\* The task that ran last was a Delete key that deleted k >= 2 items, and an
\* undo runs in this step.
UndoAfterMultiDelete ==
  /\ act.name = "deleteSelectedItems"
  /\ Len(act.pre) >= Len(currentWorkspace.items) + 2
  /\ act'.name = "undo"

\* C35: multi-delete is one undoable action. Deleting k >= 2 selected items
\* with one Delete or Backspace is reverted by one undo performed right
\* after it: the items are again those of before the command.
C35_MultiDeleteOneUndo ==
  [][UndoAfterMultiDelete => currentWorkspace'.items = act.pre]_vars

\* -------------------------------------------------- rename durability: C36
\* renameWorkspace has returned true, every save timer has run and every
\* storage call has settled.
RenamedAndQuiet ==
  /\ job.kind = "rename" /\ job.pc = "idle"
  /\ job.result = [v |-> "true"]
  /\ timers = {} /\ inflight = <<>>

\* C36: rename durability. After renameWorkspace(id, newName) has returned
\* true and all pending save timers have run, the record stored for id
\* carries newName and, when id is the current workspace, the items of the
\* workspace in memory.
C36_RenameDurable ==
  RenamedAndQuiet =>
    /\ storage.ws[job.id] # NULL
    /\ storage.ws[job.id].name = job.name
    /\ currentWorkspace.id = job.id =>
         storage.ws[job.id].items = currentWorkspace.items

\* ------------------------------------------- saved implies written: C37
\* A task ran in this step and emitted workspace:saved.
SavedEmitted ==
  /\ chromeAvailable' = chromeAvailable
  /\ \E i \in 1..Len(emitted') : emitted'[i].e = "workspace:saved"

\* The write of a workspace record was done in this step: the oldest call
\* in flight was that write, it was not rejected and the record is stored.
WorkspaceWritten ==
  /\ inflight # <<>>
  /\ Head(inflight).kind = "set"
  /\ Head(inflight).key.k = "workspace"
  /\ faults' = faults
  /\ storage'.ws[Head(inflight).key.id] = Head(inflight).val

\* C37: saved implies a write. workspace:saved is emitted only after the
\* workspace record was written: not for a save whose write was rejected and
\* not when storage is unavailable.
C37_SavedImpliesWrite == [][SavedEmitted => WorkspaceWritten]_vars

\* -------------------------------------- the last workspace stays: C38
\* A deletion returned in this step: Store.deleteWorkspace called by itself,
\* or CanvasApp.deleteWorkspace.
DeleteReturned ==
  /\ job.pc # "idle" /\ job'.pc = "idle"
  /\ job'.kind \in {"delete", "storeDelete"}

\* The list as it was for the deletion that returned had one entry, or did
\* not hold the id.
ListRefuses ==
  LET list == IF job'.pre.stor.list = NULL THEN <<DEFAULT_WORKSPACE_ID>>
              ELSE job'.pre.stor.list.v
  IN Len(list) <= 1 \/ ~SeqContains(list, job'.id)

RefusedUnknownId ==
  /\ job.kind = "storeDelete" /\ job.pc = "idle"
  /\ job.result = [del |-> "refused"]
  /\ Len(getWorkspaceList) = 3
  /\ ~SeqContains(getWorkspaceList, job.id)

\* The app was refused by the Store: its workspace is not in the list.
RefusedByStore ==
  /\ job.kind = "delete" /\ job.pc = "idle"
  /\ job.result = [del |-> "refused"]
\* ------------------------------------------------ export-all freshness: C39
\* exportAllWorkspaces returned in this step.
ExportAllReturned ==
  /\ job.pc # "idle" /\ job'.pc = "idle"
  /\ job'.kind = "exportAll"

\* C39: export-all freshness. The document exportAllWorkspaces returns holds
\* an entry that equals the current workspace as it was in memory when the
\* call was made, a save that is still pending or not.
C39_ExportAllFresh ==
  [][ExportAllReturned =>
       \E k \in 1..Len(job'.result.data.workspaces) :
         job'.result.data.workspaces[k] = ExportedEntry(job'.pre.cw)]_vars

\* exportAllWorkspaces has returned the two workspaces, that of memory with
\* the item that was created before the call.
ExportedAllFresh ==
  /\ job.kind = "exportAll" /\ job.pc = "idle"
  /\ Len(job.pre.cw.items) = 2
  /\ Len(job.result.data.workspaces) = 2
  /\ job.result.data.workspaces[1] = ExportedEntry(job.pre.cw)
\* ------------------------------------------ interaction modes: C40
\* handleCanvasMouseUp has run in this step, for mouseup or for mouseleave.
BackgroundReleased ==
  /\ act'.name = "handleCanvasMouseUp"
  /\ inflight' = inflight
  /\ timers' = timers \/ timerSeq' # timerSeq

\* C40: interaction mode exclusivity. Panning and rubber-band selecting are
\* never both active, the surface holds at most one rubber-band box, and
\* after a pointer-up or pointer-leave neither mode is active.
C40_ModeExclusivity ==
  /\ [](~(isPanning /\ isSelecting))
  /\ [](selectionBoxes <= 1)
  /\ [][BackgroundReleased => ~isPanning' /\ ~isSelecting']_vars

\* Both modes are active.
PanningAndSelecting == isPanning /\ isSelecting

\* The surface holds two rubber-band boxes.
TwoBoxes == selectionBoxes = 2
====
